---------------------------- MODULE Spec2Model ----------------------------
(***************************************************************************)
(* Window / session lifecycle of MS-365-Electron.                          *)
(*                                                                         *)
(* The model covers main.js (app ready, createWindow, close handlers,      *)
(* window-all-closed, before-quit), config/windowManager.js (the registry  *)
(* managedWindows and its event handlers), config/appLauncher.js           *)
(* (partitions, URLs, launchApp, createNewWindow), config/fileHandler.js   *)
(* (handleOpenFile) and config/sessionManager.js (saveSession,             *)
(* restoreSession, clearSession, the autosave timer).                      *)
(*                                                                         *)
(* Every handler of the single UI thread is one atomic action.  A URL is   *)
(* the sequence of its path tokens; the empty sequence is the falsy URL    *)
(* (undefined or "").  The string UNDEF stands for the JavaScript value    *)
(* undefined: an option or a JSON key that is absent.                      *)
(***************************************************************************)
EXTENDS Integers, Sequences, FiniteSets, TLC

VARIABLES
    store,            \* electron-store settings read by the core
    cliConfig,        \* result of processCLI(): startupApp, accountType
    phase,            \* "boot" | "running" | "quitting" | "exited"
    isQuitting,       \* main.js: let isQuitting
    now,              \* Date.now()
    wins,             \* live BrowserWindows: native id -> native state
    nextNativeId,     \* the id Electron gives the next BrowserWindow
    managedWindows,   \* windowManager.js: Map native id -> WindowMeta
    windowIdCounter,  \* windowManager.js: let windowIdCounter
    sessionFile,      \* content of session.json
    restoreTimers,    \* pending setTimeout callbacks of restoreSession, in firing order
    uncaught,         \* an exception reached the top level of the main process
    launches,         \* number of times the process was started
    disk,             \* "healthy" | "faulty": whether file operations can fail
    currentApp,       \* tray.js: let currentApp
    trayIcon,         \* tray.js: let badgeCount, let mediaIndicator
    mediaState,       \* mediaState.js: cameraActive, microphoneActive,
                      \* screenShareActive, activeMediaWindows
    power,            \* power.js: currentBlockerId, isCallActive, and the blockers
                      \* Electron's powerSaveBlocker has started
    currentBadgeCount,\* badge.js: let currentBadgeCount
    notifier,         \* notifications.js: notificationsEnabled, lastNotificationTime
    hotkeys,          \* hotkeyManager.js: registeredHotkeys, hotkeyEnabled, and the
                      \* callbacks Electron's globalShortcut holds for the app, by accelerator
    renderer,         \* native id -> state of the scripts injected into its page
    trace             \* history variables used to state the properties

\* the state of the feature modules
features == <<trayIcon, mediaState, power, currentBadgeCount, notifier, hotkeys, renderer>>

vars == <<store, cliConfig, phase, isQuitting, now, wins, nextNativeId,
          managedWindows, windowIdCounter, sessionFile, restoreTimers,
          uncaught, launches, disk, currentApp, features, trace>>

-----------------------------------------------------------------------------
(* Bounds of the model *)

\* native window ids available to one run of the process
MaxNativeId == 4
\* number of process starts in one behaviour
MaxLaunches == 2
\* longest time (ms) a due timer waits for the main thread
MaxLateness == 100

\* events delivered to closed windows that one run follows
MaxLate == 1

\* runs of the autosave callback that one run follows
MaxAutosaves == 2

\* notifications shown in one run
MaxShown == 2

\* time (ms) that passes between the handlers of one run
MaxElapsed == 6000

\* sessionManager.js:158  5 * 60 * 1000
AutosaveInterval == 300000

-----------------------------------------------------------------------------
(* Values *)

UNDEF == "undefined"
NoUrl == << >>
\* webContents.getTitle() before a page set a title
NoTitle == << >>

\* the webPreferences a BrowserWindow is created with
WebPreferences(nodeIntegration, contextIsolation, sandbox) ==
    [nodeIntegration |-> nodeIntegration, contextIsolation |-> contextIsolation,
     sandbox |-> sandbox]

Accounts == {"personal", "work"}
AppTypes == {"home", "word", "excel", "powerpoint", "outlook", "onedrive",
             "onenote", "teams"}

\* window geometry: the default rectangle computed at creation, a rectangle
\* the user dragged the window to, and the two transient rectangles
DefaultBounds == "default"
UserBounds    == "user"
MaximizedRect == "maximized-rect"
FullScreenRect == "fullscreen-rect"

\* sessionManager.js:70  const maxAge = 24 * 60 * 60 * 1000
maxAge == 86400000

\* sessionManager.js:96  setTimeout(..., index * 100)
RestoreStagger == 100

Remove(f, k) == [x \in DOMAIN f \ {k} |-> f[x]]
Put(f, k, v) == [x \in DOMAIN f \cup {k} |-> IF x = k THEN v ELSE f[x]]

-----------------------------------------------------------------------------
(* config/appLauncher.js *)

\* APP_URLS[app][type]; NoUrl when the table has no such entry (undefined)
APP_URLS(app, type) ==
    IF type \notin Accounts THEN NoUrl
    ELSE LET auth == IF type = "work" THEN "auth=2" ELSE "auth=1" IN
      CASE app = "word"       -> <<"microsoft365.com", "launch", "word", auth>>
        [] app = "excel"      -> <<"microsoft365.com", "launch", "excel", auth>>
        [] app = "powerpoint" -> <<"microsoft365.com", "launch", "powerpoint", auth>>
        [] app = "outlook"    -> IF type = "work" THEN <<"outlook.office.com", "mail">>
                                                  ELSE <<"outlook.live.com", "mail">>
        [] app = "onedrive"   -> <<"microsoft365.com", "launch", "onedrive", auth>>
        [] app = "onenote"    -> <<"www.onenote.com", "notebooks", auth>>
        [] app = "teams"      -> IF type = "work" THEN <<"teams.microsoft.com">>
                                                  ELSE <<"teams.live.com">>
        [] app = "allapps"    -> <<"www.microsoft365.com", "apps", auth>>
        [] app = "home"       -> <<"microsoft365.com", auth>>
        [] OTHER              -> NoUrl

KnownApps == AppTypes \cup {"allapps"}

getAccountType == IF store.enterprise = "?auth=2" THEN "work" ELSE "personal"

getPartitionAlwaysPersonal(accountType) == "persist:personal"

getPartition(accountType) ==
    LET type == IF accountType = UNDEF THEN getAccountType ELSE accountType
    IN  IF type = "work" THEN "persist:work" ELSE "persist:personal"

getAppUrl(appName, accountType) ==
    LET type == IF accountType = UNDEF THEN getAccountType ELSE accountType
    IN  IF appName \notin KnownApps THEN APP_URLS("home", type)
        ELSE APP_URLS(appName, type)

\* `https://microsoft365.com/${custompage}/${auth}`
CustomPageUrl(auth) == <<"microsoft365.com", store.custompage, auth>>


-----------------------------------------------------------------------------
(* config/windowManager.js: pure parts *)

\* String.prototype.toLowerCase on a token of a URL or of a title
ToLower(token) ==
    CASE token = "Report.DOCX" -> "report.docx"
      [] token = "Deck.PPTX"   -> "deck.pptx"
      [] token = "OneDrive"    -> "onedrive"
      [] OTHER                 -> token

toLowerCase(text) == [i \in 1..Len(text) |-> ToLower(text[i])]

\* the strings the classifiers search for that a token contains
\* (String.prototype.includes, case-sensitive, token by token)
Hints(token) ==
    CASE token = "word"                -> {"word"}
      [] token = "word.docx"           -> {"word", ".docx"}
      [] token = "report.docx"         -> {".docx"}
      [] token = "excel"               -> {"excel"}
      [] token = "budget.xlsx"         -> {".xlsx"}
      [] token = "powerpoint"          -> {"powerpoint"}
      [] token = "deck.pptx"           -> {".pptx"}
      [] token = "outlook"             -> {"outlook"}
      [] token = "outlook.live.com"    -> {"outlook", "outlook.live.com"}
      [] token = "outlook.office.com"  -> {"outlook", "outlook.office.com"}
      [] token = "onedrive"            -> {"onedrive"}
      [] token = "onedrive.live.com"   -> {"onedrive", "onedrive.live.com"}
      [] token = "onedrive.aspx"       -> {"onedrive", "onedrive.aspx"}
      [] token = "www.onenote.com"     -> {"onenote", "onenote.com"}
      [] token = "teams.live.com"      -> {"teams", "teams.live.com"}
      [] token = "teams.microsoft.com" -> {"teams", "teams.microsoft.com"}
      [] token = "&ithint=file%2cpptx" -> {"&ithint=file%2cpptx"}
      [] token = "&ithint=file%2cdocx" -> {"&ithint=file%2cdocx"}
      [] token = "&ithint=file%2cxlsx" -> {"&ithint=file%2cxlsx"}
      [] token = "&ithint=onenote"     -> {"onenote", "&ithint=onenote"}
      [] OTHER                         -> {}

Includes(url, word) == \E i \in 1..Len(url) : word \in Hints(url[i])

\* a classifier whose fallback is the tray's "office"
detectAppTypeOfficeFallback(url) ==
    LET urlLower == toLowerCase(url) IN
    IF Includes(urlLower, "word") \/ Includes(urlLower, ".docx") THEN "word"
    ELSE IF Includes(urlLower, "excel") \/ Includes(urlLower, ".xlsx") THEN "excel"
    ELSE IF Includes(urlLower, "powerpoint") \/ Includes(urlLower, ".pptx") THEN "powerpoint"
    ELSE IF Includes(urlLower, "outlook") THEN "outlook"
    ELSE IF Includes(urlLower, "onedrive") THEN "onedrive"
    ELSE IF Includes(urlLower, "onenote") THEN "onenote"
    ELSE IF Includes(urlLower, "teams") THEN "teams"
    ELSE "office"

detectAppType(url) ==
    LET urlLower == toLowerCase(url) IN
    IF Includes(urlLower, "word") \/ Includes(urlLower, ".docx") THEN "word"
    ELSE IF Includes(urlLower, "excel") \/ Includes(urlLower, ".xlsx") THEN "excel"
    ELSE IF Includes(urlLower, "powerpoint") \/ Includes(urlLower, ".pptx") THEN "powerpoint"
    ELSE IF Includes(urlLower, "outlook") THEN "outlook"
    ELSE IF Includes(urlLower, "onedrive") THEN "onedrive"
    ELSE IF Includes(urlLower, "onenote") THEN "onenote"
    ELSE IF Includes(urlLower, "teams") THEN "teams"
    ELSE "home"

\* window.getBounds() of window w among the windows ws
getBounds(ws, w) ==
    IF ws[w].fs THEN FullScreenRect
    ELSE IF ws[w].max THEN MaximizedRect
    ELSE ws[w].normal

\* BrowserWindow.getAllWindows() over the windows ws, in creation order
AllWindows(ws) == SelectSeq([i \in 1..(nextNativeId - 1) |-> i], LAMBDA i : i \in DOMAIN ws)
LiveIds == AllWindows(wins)

\* the options object of createWindow
Options(url, appType, accountType, bounds, isMaximized, show) ==
    [url |-> url, appType |-> appType, accountType |-> accountType,
     bounds |-> bounds, isMaximized |-> isMaximized, show |-> show]

\* the value a partition is resolved from: the account type when the caller
\* gives one, the persisted "enterprise-or-normal" setting otherwise
ResolvedFrom(accountType) ==
    IF accountType = UNDEF THEN store.enterprise ELSE accountType

\* createWindow(options): the BrowserWindow it builds and the URL it loads
ManagedNative(o) ==
    LET accountType == IF o.accountType = UNDEF THEN getAccountType ELSE o.accountType
        windowBounds == IF o.bounds = UNDEF THEN DefaultBounds ELSE o.bounds
        loadUrl == IF o.url # NoUrl THEN o.url
                   ELSE CustomPageUrl(IF accountType = "work" THEN "?auth=2" ELSE "?auth=1")
    IN  [kind |-> "managed", partition |-> getPartition(accountType),
         accountType |-> accountType,
         acctFrom |-> ResolvedFrom(o.accountType), url |-> loadUrl, title |-> NoTitle, load |-> "bare",
         webPreferences |-> WebPreferences(FALSE, TRUE, TRUE),
         shown |-> FALSE, ready |-> FALSE, max |-> FALSE, fs |-> FALSE,
         normal |-> windowBounds, optMax |-> o.isMaximized, optShow |-> o.show,
         windowId |-> windowIdCounter + 1]

\* a WindowMeta whose id is the number of registered windows plus one
ManagedMetaCountsLive(o) ==
    LET accountType == IF o.accountType = UNDEF THEN getAccountType ELSE o.accountType
        appType == IF o.appType = UNDEF THEN "home" ELSE o.appType
    IN  [id |-> Cardinality(DOMAIN managedWindows) + 1, appType |-> appType,
         accountType |-> accountType,
         url |-> IF o.url # NoUrl THEN o.url ELSE getAppUrl(appType, accountType),
         bounds |-> IF o.bounds = UNDEF THEN DefaultBounds ELSE o.bounds,
         isMaximized |-> o.isMaximized, isFullScreen |-> FALSE]

\* createWindow(options): the WindowMeta it stores
ManagedMeta(o) ==
    LET accountType == IF o.accountType = UNDEF THEN getAccountType ELSE o.accountType
        appType == IF o.appType = UNDEF THEN "home" ELSE o.appType
    IN  [id |-> windowIdCounter + 1, appType |-> appType, accountType |-> accountType,
         url |-> IF o.url # NoUrl THEN o.url ELSE getAppUrl(appType, accountType),
         bounds |-> IF o.bounds = UNDEF THEN DefaultBounds ELSE o.bounds,
         isMaximized |-> o.isMaximized, isFullScreen |-> FALSE]

\* getSessionState(): the record pushed for window w, over the windows ws
\* and the registry mw
SessionRecord(ws, mw, w) ==
    [tag |-> "record", id |-> mw[w].id,
     appType |-> mw[w].appType,
     accountType |-> mw[w].accountType,
     bounds |-> IF ws[w].max THEN mw[w].bounds ELSE getBounds(ws, w),
     isMaximized |-> ws[w].max, isFullScreen |-> ws[w].fs,
     url |-> ws[w].url]

\* getSessionState(): one record per live window that has metadata
getSessionState(ws, mw) ==
    LET ids == SelectSeq(AllWindows(ws), LAMBDA i : i \in DOMAIN mw)
    IN  [k \in 1..Len(ids) |-> SessionRecord(ws, mw, ids[k])]

getWindowsByAccount(accountType) ==
    {w \in DOMAIN wins : w \in DOMAIN managedWindows
                         /\ managedWindows[w].accountType = accountType}

getWindowsByApp(appType) ==
    SelectSeq(LiveIds, LAMBDA i : i \in DOMAIN managedWindows
                                  /\ managedWindows[i].appType = appType)

getWindowCount == Cardinality(DOMAIN managedWindows)

-----------------------------------------------------------------------------
(* config/sessionManager.js: the session file *)

NoFile == [kind |-> "absent", tsKind |-> "missing", timestamp |-> 0,
           shape |-> "missing", windows |-> << >>]

\* a file JSON.parse rejects, or one that parses to null: both throw inside
\* the try block of restoreSession
Garbage == [kind |-> "garbage", tsKind |-> "missing", timestamp |-> 0,
            shape |-> "missing", windows |-> << >>]

SessionData(ts, records) ==
    [kind |-> "object", tsKind |-> "number", timestamp |-> ts,
     shape |-> "array", windows |-> records]

\* outcomes of writeFileSync: written; refused before the file is opened;
\* failed after the file was truncated
WriteOutcomes == IF disk = "faulty" THEN {"ok", "eacces", "enospc"} ELSE {"ok"}

\* outcomes of unlinkSync: TRUE when the file was removed
UnlinkOutcomes == IF disk = "faulty" THEN BOOLEAN ELSE {TRUE}

\* a saveSession() without the restoreSession check
saveSessionAtUnconditional(ts, file, outcome, ws, mw) ==
    CASE outcome = "ok"     -> SessionData(ts, getSessionState(ws, mw))
      [] outcome = "eacces" -> file
      [] outcome = "enospc" -> Garbage

\* saveSession() called when Date.now() is ts
saveSessionAt(ts, file, outcome, ws, mw) ==
    IF store.restoreSession # TRUE THEN file
    ELSE CASE outcome = "ok"     -> SessionData(ts, getSessionState(ws, mw))
           [] outcome = "eacces" -> file
           [] outcome = "enospc" -> Garbage

saveSession(file, outcome, ws, mw) == saveSessionAt(now, file, outcome, ws, mw)

\* a clearSession() that leaves the file in place
clearSessionKeepsFile(file, unlinkOk) == file

\* clearSession(): unlinkSync may throw, which is caught
clearSession(file, unlinkOk) ==
    IF file.kind # "absent" /\ unlinkOk THEN NoFile ELSE file

\* Date.now() - sessionData.timestamp > maxAge; a missing timestamp gives NaN,
\* and every comparison with NaN is false
TooOld(file) == file.tsKind = "number" /\ now - file.timestamp > maxAge

\* a restoreSession() without the windowCount === 0 return
restoreSessionNoEmptyCheck(unlinkOk) ==
    LET no == [ret |-> FALSE, file |-> sessionFile, timers |-> << >>,
              unlink |-> "none"] IN
    IF store.restoreSession # TRUE THEN no
    ELSE IF sessionFile.kind = "absent" THEN no
    ELSE IF sessionFile.kind # "object" THEN no
    ELSE IF sessionFile.shape # "array" THEN no
    ELSE IF TooOld(sessionFile)
         THEN [ret |-> FALSE, file |-> clearSession(sessionFile, unlinkOk),
               timers |-> << >>, unlink |-> IF unlinkOk THEN "done" ELSE "threw"]
    ELSE [ret |-> TRUE, file |-> sessionFile, timers |-> sessionFile.windows,
          unlink |-> "none"]

\* restoreSession(): [ret, file, timers, unlink]; unlink tells whether
\* clearSession() ran and whether its unlinkSync threw
restoreSession(unlinkOk) ==
    LET no == [ret |-> FALSE, file |-> sessionFile, timers |-> << >>,
              unlink |-> "none"] IN
    IF store.restoreSession # TRUE THEN no
    ELSE IF sessionFile.kind = "absent" THEN no
    ELSE IF sessionFile.kind # "object" THEN no
    ELSE IF sessionFile.shape # "array" THEN no
    ELSE IF TooOld(sessionFile)
         THEN [ret |-> FALSE, file |-> clearSession(sessionFile, unlinkOk),
               timers |-> << >>, unlink |-> IF unlinkOk THEN "done" ELSE "threw"]
    ELSE IF Len(sessionFile.windows) = 0 THEN no
    ELSE [ret |-> TRUE, file |-> sessionFile, timers |-> sessionFile.windows,
          unlink |-> "none"]


-----------------------------------------------------------------------------
(* Module state of the feature modules at process start *)

\* power.js: let currentBlockerId = null
NoBlocker == 0

\* tray.js: let mediaIndicator = null
NoIndicator == "null"

\* tray.js: let badgeCount = 0; let mediaIndicator = null
TrayIconAtStart == [badgeCount |-> 0, mediaIndicator |-> NoIndicator]

\* mediaState.js: the three flags false, activeMediaWindows = new Set()
MediaStateAtStart ==
    [cameraActive |-> FALSE, microphoneActive |-> FALSE, screenShareActive |-> FALSE,
     activeMediaWindows |-> {}]

\* power.js: currentBlockerId = null, isCallActive = false; no blocker started
PowerAtStart == [currentBlockerId |-> NoBlocker, isCallActive |-> FALSE, started |-> {}]

\* notifications.js: notificationsEnabled = true, lastNotificationTime = 0
NotifierAtStart == [notificationsEnabled |-> TRUE, lastNotificationTime |-> 0]

\* hotkeyManager.js: registeredHotkeys = new Map(), hotkeyEnabled = false;
\* globalShortcut holds nothing for the app
HotkeysAtStart ==
    [registeredHotkeys |-> << >>, hotkeyEnabled |-> FALSE, globalShortcut |-> << >>]

-----------------------------------------------------------------------------
(* History variables *)

TraceAtStart(origin) ==
    [attempts  |-> 0,        \* calls of restoreSession in this run
     valid     |-> FALSE,    \* a restorable snapshot existed when the app became ready
     stale     |-> FALSE,    \* the file parsed and was older than maxAge at that moment
     defaults  |-> 0,        \* default (main) windows created in this run
     restored  |-> 0,        \* windows created by restore timers in this run
     restoredIds |-> {},     \* native ids of those windows
     recorded  |-> 0,        \* window entries of the snapshot being restored
     closed    |-> {},       \* native ids whose closed event has fired in this run
     unreg     |-> << >>,    \* native id -> times its registry record was deleted
     notified  |-> << >>,    \* native id -> the "window-closed" notifications emitted for it
     lastWrite |-> "none",   \* outcome of the last writeFileSync
     unlinkFailed |-> FALSE, \* unlinkSync threw in clearSession during this run
     origin    |-> origin,   \* registry records the session file was saved from
     restoring |-> << >>,    \* registry records the snapshot being restored was saved from
     restoreStart |-> 0,     \* Date.now() when restoreSession scheduled its timers
     createdAt |-> << >>,    \* Date.now() at each window creation of the restore, in order
     intervals |-> << >>,    \* Date.now() at each setInterval of initializeSessionManager
     autosaveAt |-> << >>,   \* Date.now() at each run of the autosave callback
     lastLoad  |-> [loaded |-> 0, focused |-> 0, dynamic |-> FALSE,
                    recorded |-> "none", indicator |-> "office"],
                             \* the last run of the page-load handler: the window that
                             \* loaded, the focused window, the setting, the type the
                             \* registry held for the focused window, currentApp after it
     lastCall  |-> [w |-> 0, method |-> "none", channel |-> "none",
                    forwarded |-> FALSE, registered |-> FALSE, rejected |-> FALSE],
                             \* the last call of a page on window.electronAPI and
                             \* what the preload script did with it
     lastFocus |-> [appType |-> "none", accountType |-> UNDEF, window |-> 0,
                    created |-> FALSE],
                             \* the last call of focusOrCreateWindow: its arguments, the
                             \* window it returned, whether it created that window
     shownAt   |-> << >>,    \* Date.now() at each notification that was shown
     lastNotify |-> [at |-> 0, enabled |-> FALSE, supported |-> FALSE, lastBefore |-> 0,
                     lastAfter |-> 0, notification |-> "none"],
                             \* the last call of showNotification: Date.now(), whether
                             \* notifications were enabled and supported,
                             \* lastNotificationTime before and after, what it returned
     lastTitle |-> [w |-> 0, count |-> 0],
                             \* the last title change a page observed: the window and
                             \* the unread count of the new title
     lastHotkeyOp |-> "none",  \* the last operation of the hotkey manager
     lastRestoreOp |-> "none", \* the last operation on the restore-session setting
     allClosed |-> [fired |-> FALSE, before |-> << >>],
                             \* "window-all-closed" was emitted in this run, and the
                             \* state of the feature modules its listeners found
     loadFailed |-> {},      \* the content loads that failed: window, whether the
                             \* rejection had a handler, whether the window and its
                             \* record were still there afterwards
     late      |-> << >>]    \* the events delivered to windows after their closed event:
                             \* <<native id, event, registry before, registry after, handler threw>>

\* the session file holds a snapshot the startup is to restore: restore is
\* enabled, the file parses, windows is a non-empty array, and the
\* snapshot is not older than 24 hours
RestorableSnapshot ==
    /\ store.restoreSession = TRUE
    /\ sessionFile.kind = "object"
    /\ sessionFile.shape = "array"
    /\ ~(sessionFile.tsKind = "number" /\ now - sessionFile.timestamp > maxAge)
    /\ Len(sessionFile.windows) > 0

\* the session file parsed to an object whose timestamp is more than 24
\* hours before now
OlderThanADay ==
    /\ sessionFile.kind = "object"
    /\ sessionFile.tsKind = "number"
    /\ now - sessionFile.timestamp > 24 * 60 * 60 * 1000

\* the registry fields a round trip must preserve, per saved window
RegistryView(ws, mw) ==
    LET ids == SelectSeq(AllWindows(ws), LAMBDA i : i \in DOMAIN mw)
    IN  [k \in 1..Len(ids) |->
            [appType |-> mw[ids[k]].appType,
             accountType |-> mw[ids[k]].accountType,
             bounds |-> mw[ids[k]].bounds,
             isMaximized |-> mw[ids[k]].isMaximized]]

\* trace after a saveSession() whose write ended with `outcome`
TraceSaved(t, outcome, ws, mw) ==
    IF store.restoreSession # TRUE THEN t
    ELSE [t EXCEPT !.lastWrite = outcome,
                   !.origin = CASE outcome = "ok"     -> RegistryView(ws, mw)
                                [] outcome = "eacces" -> @
                                [] outcome = "enospc" -> << >>]

-----------------------------------------------------------------------------
(* The feature modules: mediaState.js, power.js, badge.js, notifications.js *)
(* The handlers are functions of the module state f (a record holding the  *)
(* variables of `features` but `renderer`), so that the listeners of one   *)
(* event compose in registration order.                                    *)

\* the module state of the feature modules
Features ==
    [trayIcon |-> trayIcon, mediaState |-> mediaState, power |-> power,
     currentBadgeCount |-> currentBadgeCount, notifier |-> notifier,
     hotkeys |-> hotkeys]

\* the module state after a handler: f
Becomes(f) ==
    /\ trayIcon' = f.trayIcon
    /\ mediaState' = f.mediaState
    /\ power' = f.power
    /\ currentBadgeCount' = f.currentBadgeCount
    /\ notifier' = f.notifier
    /\ hotkeys' = f.hotkeys

\* BrowserWindow.fromWebContents(event.sender) found no window: window?.id
\* is undefined
NoWindow == 0

isAnyMediaActive(f) ==
    \/ f.mediaState.cameraActive
    \/ f.mediaState.microphoneActive
    \/ f.mediaState.screenShareActive

\* the "media-state-changed" listener of tray.js: the indicator for getMediaState()
MediaIndicator(m) ==
    IF m.cameraActive /\ m.microphoneActive THEN "camera-mic"
    ELSE IF m.cameraActive THEN "camera"
    ELSE IF m.microphoneActive THEN "microphone"
    ELSE IF m.screenShareActive THEN "screen-share"
    ELSE NoIndicator

\* app.emit("media-state-changed", getMediaState())
EmitMediaStateChanged(f) ==
    [f EXCEPT !.trayIcon.mediaIndicator = MediaIndicator(f.mediaState)]

setCameraActive(f, active, windowId) ==
    LET g == [f EXCEPT !.mediaState.cameraActive = active,
                       !.mediaState.activeMediaWindows =
                            IF windowId # NoWindow /\ active THEN @ \cup {windowId} ELSE @]
    IN  IF f.mediaState.cameraActive # active THEN EmitMediaStateChanged(g) ELSE g

setMicrophoneActive(f, active, windowId) ==
    LET g == [f EXCEPT !.mediaState.microphoneActive = active,
                       !.mediaState.activeMediaWindows =
                            IF windowId # NoWindow /\ active THEN @ \cup {windowId} ELSE @]
    IN  IF f.mediaState.microphoneActive # active THEN EmitMediaStateChanged(g) ELSE g

setScreenShareActive(f, active, windowId) ==
    LET g == [f EXCEPT !.mediaState.screenShareActive = active,
                       !.mediaState.activeMediaWindows =
                            IF windowId # NoWindow /\ active THEN @ \cup {windowId} ELSE @]
    IN  IF f.mediaState.screenShareActive # active THEN EmitMediaStateChanged(g) ELSE g

\* clearWindowMediaState(windowId): the entry is deleted; the flags are
\* cleared when no entry is left
clearWindowMediaState(f, windowId) ==
    LET remaining == f.mediaState.activeMediaWindows \ {windowId}
        cleared == [f EXCEPT !.mediaState = MediaStateAtStart]
    IN  IF remaining # {}
        THEN [f EXCEPT !.mediaState.activeMediaWindows = remaining]
        ELSE IF isAnyMediaActive(f) THEN EmitMediaStateChanged(cleared) ELSE cleared

\* a clearAllMediaState() that forgets the windows and keeps the flags
clearAllMediaStateKeepsFlags(f) ==
    [f EXCEPT !.mediaState.activeMediaWindows = {}]

clearAllMediaState(f) ==
    LET cleared == [f EXCEPT !.mediaState = MediaStateAtStart]
    IN  IF isAnyMediaActive(f) THEN EmitMediaStateChanged(cleared) ELSE cleared

\* ipcMain.on("media:state-changed") for a message of the window with
\* native id windowId (NoWindow when the sender has no window any more)
OnMediaStateChanged(f, windowId, data) ==
    IF data.active
    THEN LET a == IF data.camera THEN setCameraActive(f, TRUE, windowId) ELSE f
         IN  IF data.microphone THEN setMicrophoneActive(a, TRUE, windowId) ELSE a
    ELSE IF windowId # NoWindow
         THEN clearWindowMediaState(f, windowId)
         ELSE setMicrophoneActive(setCameraActive(f, FALSE, NoWindow), FALSE, NoWindow)

\* ipcMain.on("media:screen-share-changed")
OnScreenShareChanged(f, windowId, active) == setScreenShareActive(f, active, windowId)

\* power.js
isPowerSaveBlocked(f) ==
    /\ f.power.currentBlockerId # NoBlocker
    /\ f.power.currentBlockerId \in f.power.started

\* powerSaveBlocker.start(type): the id of the new blocker
NewBlockerId(f) == Cardinality(f.power.started) + 1

startPowerSaveBlock(f) ==
    IF isPowerSaveBlocked(f) THEN f
    ELSE [f EXCEPT !.power.currentBlockerId = NewBlockerId(f),
                   !.power.started = @ \cup {NewBlockerId(f)}]

stopPowerSaveBlock(f) ==
    IF isPowerSaveBlocked(f)
    THEN [f EXCEPT !.power.started = @ \ {f.power.currentBlockerId},
                   !.power.currentBlockerId = NoBlocker]
    ELSE f

setCallActive(f, active) ==
    LET g == [f EXCEPT !.power.isCallActive = active]
    IN  IF active THEN startPowerSaveBlock(g) ELSE stopPowerSaveBlock(g)

\* the "window-all-closed" listener of power.js
PowerOnWindowAllClosed(f) ==
    [stopPowerSaveBlock(f) EXCEPT !.power.isCallActive = FALSE]

\* badge.js
setBadgeCount(f, count) ==
    [f EXCEPT !.currentBadgeCount = count, !.trayIcon.badgeCount = count]

clearBadgeCount(f) == setBadgeCount(f, 0)

\* the leading "(n)" tokens of the document titles
UnreadTokens == {"(0)", "(1)", "(2)"}

\* parseInt(match[1], 10) for the digits of a leading "(n)"
ParseInt(token) ==
    CASE token = "(0)" -> 0
      [] token = "(1)" -> 1
      [] token = "(2)" -> 2

\* parseUnreadCount(title) of the observer script: /^\((\d+)\)/
parseUnreadCount(title) ==
    IF title # << >> /\ title[1] \in UnreadTokens THEN ParseInt(title[1]) ELSE 0

\* notifications.js
NOTIFICATION_COOLDOWN == 3000

areNotificationsEnabled(f) ==
    f.notifier.notificationsEnabled /\ store.notifications # FALSE

\* a showNotification without the rate limit
showNotificationNoCooldown(f, supported, ts) ==
    IF ~areNotificationsEnabled(f) \/ ~supported
    THEN [features |-> f, notification |-> "null"]
    ELSE [features |-> [f EXCEPT !.notifier.lastNotificationTime = ts],
          notification |-> "shown"]

\* showNotification(options) at Date.now() = ts, Notification.isSupported()
\* = supported: the module state after it and what it returns
showNotification(f, supported, ts) ==
    IF ~areNotificationsEnabled(f) \/ ~supported
    THEN [features |-> f, notification |-> "null"]
    ELSE IF ts - f.notifier.lastNotificationTime < NOTIFICATION_COOLDOWN
    THEN [features |-> f, notification |-> "null"]
    ELSE [features |-> [f EXCEPT !.notifier.lastNotificationTime = ts],
          notification |-> "shown"]

\* ipcMain.on("notification:unread-changed") for a message of a window
\* showing url: "unread-count-changed" reaches badge.js, then the
\* notification for Outlook and Teams pages
OnUnreadChanged(f, url, data, supported, ts) ==
    LET b == setBadgeCount(f, data.count)
    IN  IF data.increased /\ areNotificationsEnabled(b)
           /\ (Includes(url, "outlook") \/ Includes(url, "teams"))
        THEN showNotification(b, supported, ts)
        ELSE [features |-> b, notification |-> "none"]

\* hotkeyManager.js
LaunchBinding(app) == [action |-> "launch", app |-> app, accountType |-> UNDEF]

DEFAULT_HOTKEYS ==
    [accelerator \in {"Super+Shift+W", "Super+Shift+E", "Super+Shift+P", "Super+Shift+O",
                      "Super+Shift+D", "Super+Shift+N", "Super+Shift+T", "Super+Shift+M"} |->
        CASE accelerator = "Super+Shift+W" -> LaunchBinding("word")
          [] accelerator = "Super+Shift+E" -> LaunchBinding("excel")
          [] accelerator = "Super+Shift+P" -> LaunchBinding("powerpoint")
          [] accelerator = "Super+Shift+O" -> LaunchBinding("outlook")
          [] accelerator = "Super+Shift+D" -> LaunchBinding("onedrive")
          [] accelerator = "Super+Shift+N" -> LaunchBinding("onenote")
          [] accelerator = "Super+Shift+T" -> LaunchBinding("teams")
          [] accelerator = "Super+Shift+M" -> LaunchBinding("home")]

\* getValue("hotkeyBindings") when nothing was saved
NoBindings == [saved |-> FALSE, bindings |-> << >>]

\* setValue("hotkeyBindings", bindings)
SavedBindings(bindings) == [saved |-> TRUE, bindings |-> bindings]

\* getHotkeyBindings() over the settings st: saved || { ...DEFAULT_HOTKEYS }
getHotkeyBindings(st) ==
    IF st.hotkeyBindings.saved THEN st.hotkeyBindings.bindings ELSE DEFAULT_HOTKEYS

\* areHotkeysEnabled() over the settings st
areHotkeysEnabled(f, st) == f.hotkeys.hotkeyEnabled /\ st.globalHotkeys = TRUE

\* registerHotkey(accelerator, binding) when globalShortcut.register returns
\* success
registerHotkey(f, accelerator, binding, success) ==
    LET released == IF accelerator \in DOMAIN f.hotkeys.registeredHotkeys
                       /\ accelerator \in DOMAIN f.hotkeys.globalShortcut
                    THEN Remove(f.hotkeys.globalShortcut, accelerator)
                    ELSE f.hotkeys.globalShortcut
    IN  IF success
        THEN [f EXCEPT !.hotkeys.globalShortcut = Put(released, accelerator, binding),
                       !.hotkeys.registeredHotkeys = Put(@, accelerator, binding)]
        ELSE [f EXCEPT !.hotkeys.globalShortcut = released]

unregisterHotkey(f, accelerator) ==
    IF accelerator \in DOMAIN f.hotkeys.registeredHotkeys
    THEN [f EXCEPT !.hotkeys.globalShortcut = IF accelerator \in DOMAIN @
                                              THEN Remove(@, accelerator) ELSE @,
                   !.hotkeys.registeredHotkeys = Remove(@, accelerator)]
    ELSE f

\* the loop of registerAllHotkeys() over the entries todo of bindings;
\* globalShortcut.register fails for the accelerators of refused
RECURSIVE RegisterEach(_, _, _, _)
RegisterEach(f, bindings, todo, refused) ==
    IF todo = {} THEN f
    ELSE LET accelerator == CHOOSE a \in todo : TRUE
         IN  RegisterEach(registerHotkey(f, accelerator, bindings[accelerator],
                                         accelerator \notin refused),
                          bindings, todo \ {accelerator}, refused)

registerAllHotkeys(f, st, refused) ==
    RegisterEach(f, getHotkeyBindings(st), DOMAIN getHotkeyBindings(st), refused)

\* unregisterAllHotkeys(): globalShortcut.unregisterAll(); registeredHotkeys.clear()
unregisterAllHotkeys(f) ==
    [f EXCEPT !.hotkeys.globalShortcut = << >>, !.hotkeys.registeredHotkeys = << >>]

\* initializeHotkeyManager() in the "ready" handler: app.isReady() holds
initializeHotkeyManager(f, st, refused) ==
    IF st.globalHotkeys = TRUE
    THEN registerAllHotkeys([f EXCEPT !.hotkeys.hotkeyEnabled = TRUE], st, refused)
    ELSE f

\* the accelerators the model rebinds, removes, presses and lets
\* globalShortcut.register refuse: a default one and a custom one
Accelerators == {"Super+Shift+W", "Ctrl+Alt+W"}

\* the accelerators globalShortcut.register refuses in one run of
\* registerAllHotkeys over the settings st: none, or one of the bindings
Refusals(st) ==
    IF st.globalHotkeys = TRUE
    THEN {{}} \cup {{accelerator} : accelerator \in DOMAIN getHotkeyBindings(st) \cap Accelerators}
    ELSE {{}}

\* the "will-quit" listeners: hotkeyManager.js, then power.js
FeaturesOnWillQuit(f) == stopPowerSaveBlock(unregisterAllHotkeys(f))

\* the "window-all-closed" listeners of the feature modules, in registration
\* order: badge.js, power.js, mediaState.js
FeaturesOnWindowAllClosed(f) ==
    clearAllMediaState(PowerOnWindowAllClosed(clearBadgeCount(f)))

\* the state of the scripts the did-finish-load handlers inject into the
\* page of window w: activeStreams of the media script (a stream is named by
\* its tracks), the display stream it follows, lastCallState of the call
\* script (injected for Teams and Outlook pages only), lastTitle of the
\* notification observer
InjectedScripts(w) ==
    [activeStreams |-> {}, screenShare |-> FALSE,
     callDetection |-> Includes(wins[w].url, "teams") \/ Includes(wins[w].url, "outlook"),
     lastCallState |-> FALSE, lastTitle |-> wins[w].title]

\* the beforeunload listeners of the scripts of window w, whose messages the
\* main process handles while the window exists
Unloaded(f, w) ==
    IF w \notin DOMAIN renderer THEN f
    ELSE LET c == IF renderer[w].callDetection THEN setCallActive(f, FALSE) ELSE f
             m == OnMediaStateChanged(c, w, [camera |-> FALSE, microphone |-> FALSE,
                                             active |-> FALSE])
         IN  OnScreenShareChanged(m, w, FALSE)

\* the scripts run in the page that finished loading in window w: the
\* observer sends the initial unread count when it is positive
Injected(f, w) ==
    LET initialCount == parseUnreadCount(wins[w].title)
    IN  IF initialCount > 0
        THEN OnUnreadChanged(Unloaded(f, w), wins[w].url,
                             [count |-> initialCount, increased |-> FALSE],
                             TRUE, now).features
        ELSE Unloaded(f, w)

-----------------------------------------------------------------------------
(* main.js: createWindow() and the ready handler *)

\* createWindow() of main.js: the main window
MainNative ==
    LET enterpriseOrNormal == store.enterprise
        partition == IF enterpriseOrNormal = "?auth=1" THEN "persist:personal"
                                                       ELSE "persist:work"
        accountType == IF cliConfig.accountType = UNDEF THEN getAccountType
                                                        ELSE cliConfig.accountType
        startUrl == IF cliConfig.startupApp # UNDEF
                    THEN getAppUrl(cliConfig.startupApp, accountType)
                    ELSE CustomPageUrl(enterpriseOrNormal)
    IN  [kind |-> "main", partition |-> partition, accountType |-> UNDEF,
         acctFrom |-> enterpriseOrNormal, url |-> startUrl, title |-> NoTitle,
         load |-> "bare", webPreferences |-> WebPreferences(FALSE, TRUE, TRUE),
         shown |-> FALSE, ready |-> FALSE, max |-> FALSE, fs |-> FALSE,
         normal |-> DefaultBounds, optMax |-> FALSE, optShow |-> FALSE,
         windowId |-> 0]

\* the splash screen createWindow() of main.js opens beside the main window
SplashNative ==
    [kind |-> "splash", partition |-> "default", accountType |-> UNDEF,
     acctFrom |-> UNDEF,
     url |-> <<"agam778.github.io", "loading">>, title |-> NoTitle,
     load |-> "bare", webPreferences |-> WebPreferences(FALSE, TRUE, TRUE),
     shown |-> TRUE, ready |-> TRUE, max |-> FALSE, fs |-> FALSE,
     normal |-> DefaultBounds, optMax |-> FALSE, optShow |-> FALSE,
     windowId |-> 0]

\* app.on("ready"): restoreSession(), then createWindow() unless it returned true
AppReady ==
    /\ phase = "boot"
    /\ \E unlinkOk \in UnlinkOutcomes :
         LET r == restoreSession(unlinkOk) IN
         /\ sessionFile' = r.file
         /\ restoreTimers' = r.timers
         /\ IF r.ret
            THEN /\ UNCHANGED <<wins, nextNativeId>>
            ELSE /\ wins' = Put(Put(wins, nextNativeId, MainNative),
                                nextNativeId + 1, SplashNative)
                 /\ nextNativeId' = nextNativeId + 2
         /\ trace' = [trace EXCEPT
                        !.attempts = @ + 1,
                        !.intervals = Append(@, now),
                        !.valid = RestorableSnapshot,
                        !.stale = OlderThanADay,
                        !.unlinkFailed = r.unlink = "threw",
                        !.defaults = IF r.ret THEN @ ELSE @ + 1,
                        !.recorded = Len(r.timers),
                        !.restoring = IF r.ret THEN trace.origin ELSE << >>,
                        !.restoreStart = now]
    /\ phase' = "running"
    /\ \E refused \in Refusals(store) :
         Becomes(initializeHotkeyManager(Features, store, refused))
    /\ UNCHANGED <<renderer, currentApp, store, cliConfig, isQuitting, now, managedWindows,
                   windowIdCounter, uncaught, launches, disk>>

\* win.webContents.on("did-finish-load") of the main window
MainDidFinishLoad(w) ==
    /\ phase \in {"running", "quitting"}
    /\ w \in DOMAIN wins /\ wins[w].kind = "main"
    /\ LET shownNow == IF store.startMinimized # TRUE THEN TRUE ELSE wins[w].shown
           after == [wins EXCEPT ![w].shown = shownNow, ![w].ready = TRUE,
                                 ![w].load = "none"]
       IN  wins' = IF (w + 1) \in DOMAIN wins /\ wins[w + 1].kind = "splash"
                   THEN Remove(after, w + 1) ELSE after
    /\ Becomes(Injected(Features, w))
    /\ renderer' = Put(renderer, w, InjectedScripts(w))
    /\ UNCHANGED <<currentApp, store, cliConfig, phase, isQuitting, now, nextNativeId,
                   managedWindows, windowIdCounter, sessionFile, restoreTimers,
                   uncaught, launches, disk, trace>>

-----------------------------------------------------------------------------
(* config/windowManager.js: createWindow and its handlers *)

\* createWindow(options): allocate the window, store its metadata
createWindow(o) ==
    /\ nextNativeId <= MaxNativeId
    /\ wins' = Put(wins, nextNativeId, ManagedNative(o))
    /\ managedWindows' = Put(managedWindows, nextNativeId, ManagedMeta(o))
    /\ nextNativeId' = nextNativeId + 1
    /\ windowIdCounter' = windowIdCounter + 1

\* window.on("maximize"), ("unmaximize"), ("enter-full-screen") and
\* ("leave-full-screen"): the registry after the handler ran for window w
OnMaximizeStoresRect(mw, w) ==
    IF w \in DOMAIN mw
    THEN [mw EXCEPT ![w].isMaximized = TRUE, ![w].bounds = MaximizedRect]
    ELSE mw

OnMaximize(mw, w) ==
    IF w \in DOMAIN mw THEN [mw EXCEPT ![w].isMaximized = TRUE] ELSE mw

OnUnmaximize(mw, w) ==
    IF w \in DOMAIN mw THEN [mw EXCEPT ![w].isMaximized = FALSE] ELSE mw

OnEnterFullScreen(mw, w) ==
    IF w \in DOMAIN mw THEN [mw EXCEPT ![w].isFullScreen = TRUE] ELSE mw

OnLeaveFullScreen(mw, w) ==
    IF w \in DOMAIN mw THEN [mw EXCEPT ![w].isFullScreen = FALSE] ELSE mw

\* a resize / move handler that stores the live rectangle whatever the
\* state of the window
OnResizeUnguarded(ws, mw, w) ==
    IF w \in DOMAIN mw THEN [mw EXCEPT ![w].bounds = getBounds(ws, w)] ELSE mw

\* window.on("resize") and ("move"), with the native windows ws as they are
\* when the event is delivered
OnResize(ws, mw, w) ==
    IF ~ws[w].max /\ ~ws[w].fs
    THEN IF w \in DOMAIN mw THEN [mw EXCEPT ![w].bounds = getBounds(ws, w)] ELSE mw
    ELSE mw

\* a navigation handler that also re-derives the account from the URL
OnDidNavigateSwitchesAccount(mw, w, newUrl) ==
    IF w \in DOMAIN mw
    THEN [mw EXCEPT ![w].url = newUrl, ![w].appType = detectAppType(newUrl),
                    ![w].accountType = IF \E i \in 1..Len(newUrl) : newUrl[i] = "auth=2"
                                       THEN "work" ELSE "personal"]
    ELSE mw

\* webContents.on("did-navigate") and ("did-navigate-in-page")
OnDidNavigate(mw, w, newUrl) ==
    IF w \in DOMAIN mw
    THEN [mw EXCEPT ![w].url = newUrl, ![w].appType = detectAppType(newUrl)]
    ELSE mw

\* the "ready-to-show" signal of window w.  windowManager.js handles it with
\* window.once("ready-to-show"); window.maximize() emits "maximize" and the
\* "resize" to the maximized rectangle.  The windows of launchApp and
\* createNewWindow have no handler and were created visible.
ReadyToShow(w) ==
    /\ phase \in {"running", "quitting"}
    /\ w \in DOMAIN wins /\ wins[w].kind \in {"managed", "launcher"} /\ ~wins[w].ready
    /\ wins' = [wins EXCEPT ![w].ready = TRUE,
                            ![w].shown = wins[w].shown \/ wins[w].optShow,
                            ![w].max = wins[w].max \/ wins[w].optMax]
    /\ managedWindows' = IF wins[w].optMax
                         THEN OnResize(wins', OnMaximize(managedWindows, w), w)
                         ELSE managedWindows
    /\ UNCHANGED <<features, currentApp, store, cliConfig, phase, isQuitting, now, nextNativeId,
                   windowIdCounter, sessionFile, restoreTimers, uncaught,
                   launches, disk, trace>>

\* the page of window w finished a navigation to the URL it was told to load
DidNavigate(w) ==
    /\ phase \in {"running", "quitting"}
    /\ w \in DOMAIN wins /\ wins[w].kind = "managed"
    /\ managedWindows' = OnDidNavigate(managedWindows, w, wins[w].url)
    /\ UNCHANGED <<features, currentApp, store, cliConfig, phase, isQuitting, now, wins, nextNativeId,
                   windowIdCounter, sessionFile, restoreTimers, uncaught,
                   launches, disk, trace>>

\* the events windowManager.js attaches a handler to
NativeEvents == {"maximize", "unmaximize", "enter-full-screen", "leave-full-screen",
                 "resize", "move", "did-navigate", "did-navigate-in-page"}

\* the handler of event ev run for window w after w was destroyed and its
\* record deleted.  The flag and navigation handlers look the record up and
\* do nothing without it.  The resize and move handlers first call
\* window.isMaximized() on the destroyed window, which throws
\* "Object has been destroyed" before the record is looked up.
LateHandler(ev, mw, w) ==
    IF ev = "maximize" THEN [mw |-> OnMaximize(mw, w), threw |-> FALSE]
    ELSE IF ev = "unmaximize" THEN [mw |-> OnUnmaximize(mw, w), threw |-> FALSE]
    ELSE IF ev = "enter-full-screen" THEN [mw |-> OnEnterFullScreen(mw, w), threw |-> FALSE]
    ELSE IF ev = "leave-full-screen" THEN [mw |-> OnLeaveFullScreen(mw, w), threw |-> FALSE]
    ELSE IF ev \in {"did-navigate", "did-navigate-in-page"}
    THEN [mw |-> OnDidNavigate(mw, w, getAppUrl("word", UNDEF)), threw |-> FALSE]
    ELSE [mw |-> mw, threw |-> TRUE]

\* an event of NativeEvents delivered for a managed window whose closed
\* event has already fired
LateEvent(w, ev) ==
    /\ phase \in {"running", "quitting"}
    /\ w \in DOMAIN trace.notified /\ w \notin DOMAIN wins
    /\ Len(trace.late) < MaxLate
    /\ LET r == LateHandler(ev, managedWindows, w)
       IN  /\ managedWindows' = r.mw
           /\ uncaught' = (uncaught \/ r.threw)
           /\ trace' = [trace EXCEPT !.late = Append(@, <<w, ev, managedWindows, r.mw, r.threw>>)]
    /\ UNCHANGED <<features, currentApp, store, cliConfig, phase, isQuitting, now, wins, nextNativeId,
                   windowIdCounter, sessionFile, restoreTimers, launches, disk>>

\* the load that window w started with loadURL fails (network error, load
\* aborted): the promise loadURL returned is rejected.  load is "caught" when
\* the call site attached .catch to it, "bare" when it dropped the promise,
\* "none" when no load is pending.
LoadFails(w) ==
    /\ phase = "running"
    /\ w \in DOMAIN wins /\ wins[w].load # "none"
    /\ wins' = [wins EXCEPT ![w].load = "none"]
    /\ trace' = [trace EXCEPT !.loadFailed =
                   @ \cup {[w |-> w, caught |-> wins[w].load = "caught",
                            kept |-> /\ w \in DOMAIN wins'
                                     /\ (wins[w].kind = "managed"
                                           => w \in DOMAIN managedWindows)]}]
    /\ UNCHANGED <<features, currentApp, store, cliConfig, phase, isQuitting, now, nextNativeId,
                   managedWindows, windowIdCounter, sessionFile, restoreTimers,
                   uncaught, launches, disk>>

\* what BrowserWindow.getFocusedWindow() can return: a visible window or null (0)
FocusChoices == {w \in DOMAIN wins : wins[w].shown} \cup {0}

\* the application the did-finish-load handler of main.js derives from the
\* URL and the title of the focused window (String.prototype.includes, not
\* lower-cased)
TrayApp(url, title) ==
    IF Includes(url, "&ithint=file%2cpptx") \/ Includes(title, ".pptx") THEN "powerpoint"
    ELSE IF Includes(url, "&ithint=file%2cdocx") \/ Includes(title, ".docx") THEN "word"
    ELSE IF Includes(url, "&ithint=file%2cxlsx") \/ Includes(title, ".xlsx") THEN "excel"
    ELSE IF Includes(url, "outlook.live.com") \/ Includes(url, "outlook.office.com")
    THEN "outlook"
    ELSE IF Includes(url, "onedrive.live.com") \/ Includes(url, "onedrive.aspx")
    THEN "onedrive"
    ELSE IF Includes(url, "teams.live.com") \/ Includes(url, "teams.microsoft.com")
    THEN "teams"
    ELSE IF Includes(url, "&ithint=onenote") \/ Includes(url, "onenote.com") THEN "onenote"
    ELSE "office"

\* updateTrayIcon(appName): the value currentApp gets
updateTrayIcon(appName) ==
    IF store.dynamicicons # "true" THEN "office" ELSE appName

\* contents.on("did-finish-load") of the web-contents-created handler: a page
\* of window w finished loading; "office-app-changed" is emitted for the
\* focused window and the tray handles it
PageDidFinishLoad(w) ==
    /\ phase = "running"
    /\ w \in DOMAIN wins
    /\ \E focused \in FocusChoices :
         LET emitted == store.dynamicicons = "true" /\ focused # 0
             appName == TrayApp(wins[focused].url, wins[focused].title)
         IN  /\ currentApp' = IF emitted THEN updateTrayIcon(appName) ELSE currentApp
             /\ trace' = [trace EXCEPT !.lastLoad =
                            [loaded |-> w, focused |-> focused,
                             dynamic |-> store.dynamicicons = "true",
                             recorded |-> IF focused \in DOMAIN managedWindows
                                          THEN managedWindows[focused].appType
                                          ELSE "none",
                             indicator |-> currentApp']]
    /\ Becomes(Injected(Features, w))
    /\ renderer' = Put(renderer, w, InjectedScripts(w))
    /\ UNCHANGED <<store, cliConfig, phase, isQuitting, now, wins, nextNativeId,
                   managedWindows, windowIdCounter, sessionFile, restoreTimers,
                   uncaught, launches, disk>>

\* the preferences window sets "dynamicIcons": setValue("dynamicicons", ...)
SetDynamicIcons(value) ==
    /\ phase = "running"
    /\ store' = [store EXCEPT !.dynamicicons = IF value THEN "true" ELSE "false"]
    /\ UNCHANGED <<features, currentApp, cliConfig, phase, isQuitting, now, wins, nextNativeId,
                   managedWindows, windowIdCounter, sessionFile, restoreTimers,
                   uncaught, launches, disk, trace>>

\* the pages a window is navigated to: URL and document title
Page(url, title) == [url |-> url, title |-> title]

Pages ==
    { Page(<<"x", "outlook">>, NoTitle),
      Page(<<"unknown.example">>, <<"Untitled">>),
      Page(<<"unknown.example">>, <<"deck.pptx">>),
      Page(<<"onedrive.live.com", "report.docx">>, NoTitle),
      Page(<<"onedrive.live.com", "edit.aspx", "&ithint=file%2cpptx">>, <<"deck.pptx">>),
      Page(<<"sharepoint.com", "Report.DOCX">>, <<"Report.DOCX">>),
      Page(<<"teams.live.com", "www.onenote.com">>, NoTitle),
      Page(<<"microsoft365.com", "excel", "word">>, NoTitle) }

\* the page shown by window w navigates to page (a link, a redirect, a
\* document opened from a list); webContents emits "did-navigate" with the
\* new URL, which windowManager.js handles for the windows it created
Navigate(w, page) ==
    /\ phase = "running"
    /\ w \in DOMAIN wins /\ wins[w].kind # "splash"
    /\ wins' = [wins EXCEPT ![w].url = page.url, ![w].title = page.title]
    /\ managedWindows' = IF wins[w].kind = "managed"
                         THEN OnDidNavigate(managedWindows, w, page.url)
                         ELSE managedWindows
    /\ UNCHANGED <<features, currentApp, store, cliConfig, phase, isQuitting, now, nextNativeId,
                   windowIdCounter, sessionFile, restoreTimers, uncaught,
                   launches, disk, trace>>

\* what the handlers of the window events leave alone
Same == UNCHANGED <<features, currentApp, store, cliConfig, phase, isQuitting, now, nextNativeId,
                    windowIdCounter, sessionFile, restoreTimers, uncaught,
                    launches, disk, trace>>

\* the user maximizes window w: "maximize", then the "resize" to the
\* maximized rectangle, delivered while window.isMaximized() is true
Maximize(w) ==
    /\ phase = "running"
    /\ w \in DOMAIN wins /\ wins[w].kind = "managed" /\ wins[w].shown
    /\ ~wins[w].max /\ ~wins[w].fs
    /\ wins' = [wins EXCEPT ![w].max = TRUE]
    /\ managedWindows' = OnResize(wins', OnMaximize(managedWindows, w), w)
    /\ Same

\* the user restores window w: "unmaximize", then the "resize" back to the
\* rectangle it had before
Unmaximize(w) ==
    /\ phase = "running"
    /\ w \in DOMAIN wins /\ wins[w].kind = "managed" /\ wins[w].shown
    /\ wins[w].max /\ ~wins[w].fs
    /\ wins' = [wins EXCEPT ![w].max = FALSE]
    /\ managedWindows' = OnResize(wins', OnUnmaximize(managedWindows, w), w)
    /\ Same

\* "enter-full-screen", then the "resize" to the full-screen rectangle
EnterFullScreen(w) ==
    /\ phase = "running"
    /\ w \in DOMAIN wins /\ wins[w].kind = "managed" /\ wins[w].shown
    /\ ~wins[w].fs
    /\ wins' = [wins EXCEPT ![w].fs = TRUE]
    /\ managedWindows' = OnResize(wins', OnEnterFullScreen(managedWindows, w), w)
    /\ Same

\* "leave-full-screen", then the "resize" back to the previous rectangle
LeaveFullScreen(w) ==
    /\ phase = "running"
    /\ w \in DOMAIN wins /\ wins[w].kind = "managed" /\ wins[w].shown
    /\ wins[w].fs
    /\ wins' = [wins EXCEPT ![w].fs = FALSE]
    /\ managedWindows' = OnResize(wins', OnLeaveFullScreen(managedWindows, w), w)
    /\ Same

\* the user drags or resizes window w to the rectangle b: "resize" / "move"
Resize(w, b) ==
    /\ phase = "running"
    /\ w \in DOMAIN wins /\ wins[w].kind = "managed" /\ wins[w].shown
    /\ ~wins[w].max /\ ~wins[w].fs /\ wins[w].normal # b
    /\ wins' = [wins EXCEPT ![w].normal = b]
    /\ managedWindows' = OnResize(wins', managedWindows, w)
    /\ Same


-----------------------------------------------------------------------------
(* Closing and quitting: main.js close / window-all-closed / before-quit,   *)
(* windowManager.js closed handler                                          *)

\* both "before-quit" handlers (main.js:1331, sessionManager.js:149) in
\* registration order: isQuitting = true; saveSession(); then saveSession()
BeforeQuitFile(o1, o2, ws, mw) ==
    saveSession(saveSession(sessionFile, o1, ws, mw), o2, ws, mw)

BeforeQuitTrace(t, o1, o2, ws, mw) ==
    TraceSaved(TraceSaved(t, o1, ws, mw), o2, ws, mw)

\* window.on("closed") of windowManager.js: managedWindows.delete(window.id)
ClosedRegistryKeepsRecord(mw, w) == mw

ClosedRegistry(mw, w) == IF w \in DOMAIN mw THEN Remove(mw, w) ELSE mw

\* a closed handler that broadcasts the native window id
ClosedNoticeNativeId(ws, mw, w) == [id |-> w, recordGone |-> w \notin DOMAIN mw]

\* app.emit("window-closed", windowId), with the registry mw as it is when
\* the notification is published
ClosedNotice(ws, mw, w) == [id |-> ws[w].windowId, recordGone |-> w \notin DOMAIN mw]

\* a close handler that vetoes whenever minimize-to-tray is on
CloseVetoedIgnoresQuitting == store.minimizeToTray = TRUE

\* the "close" handlers: !isQuitting && getValue("minimizeToTray") === true
CloseVetoed == ~isQuitting /\ store.minimizeToTray = TRUE

\* a "close" event on window w: vetoed and hidden under minimize-to-tray,
\* otherwise the window is destroyed and its "closed" event fires; when it
\* was the last window, "window-all-closed" calls app.quit()
CloseWindow(w) ==
    /\ w \in DOMAIN wins
    /\ \/ phase = "running" /\ wins[w].shown
       \/ phase = "quitting"
    /\ IF CloseVetoed
       THEN /\ wins' = [wins EXCEPT ![w].shown = FALSE]
            /\ UNCHANGED <<managedWindows, sessionFile, phase, isQuitting, trace, features>>
       ELSE LET ws == Remove(wins, w)
                mw == ClosedRegistry(managedWindows, w)
                closed == IF wins[w].kind = "managed"
                          THEN clearWindowMediaState(Features, ClosedNotice(wins, mw, w).id)
                          ELSE Features
                allClosed == FeaturesOnWindowAllClosed(closed)
                t  == [trace EXCEPT
                         !.closed = @ \cup {w},
                         !.unreg = IF w \in DOMAIN managedWindows
                                   THEN Put(@, w, IF w \in DOMAIN @ THEN @[w] + 1 ELSE 1)
                                   ELSE @,
                         !.notified = IF wins[w].kind = "managed"
                                      THEN Put(@, w, Append(IF w \in DOMAIN @ THEN @[w] ELSE << >>,
                                                            ClosedNotice(wins, mw, w)))
                                      ELSE @]
                ta == [t EXCEPT !.allClosed = [fired |-> TRUE, before |-> closed]]
            IN  /\ wins' = ws
                /\ managedWindows' = mw
                /\ renderer' = IF w \in DOMAIN renderer THEN Remove(renderer, w) ELSE renderer
                /\ IF DOMAIN ws # {}
                   THEN /\ UNCHANGED <<sessionFile, phase, isQuitting>> /\ trace' = t
                        /\ Becomes(closed)
                   ELSE IF isQuitting
                   THEN /\ phase' = "exited"
                        /\ UNCHANGED <<sessionFile, isQuitting>> /\ trace' = t
                        /\ Becomes(FeaturesOnWillQuit(closed))
                   ELSE IF store.minimizeToTray = TRUE
                   THEN /\ UNCHANGED <<sessionFile, phase, isQuitting>> /\ trace' = ta
                        /\ Becomes(allClosed)
                   ELSE \E o1, o2 \in WriteOutcomes :
                          /\ sessionFile' = BeforeQuitFile(o1, o2, ws, mw)
                          /\ trace' = BeforeQuitTrace(ta, o1, o2, ws, mw)
                          /\ isQuitting' = TRUE
                          /\ phase' = "exited"
                          /\ Becomes(FeaturesOnWillQuit(allClosed))
    /\ UNCHANGED <<currentApp, store, cliConfig, now, nextNativeId, windowIdCounter,
                   restoreTimers, uncaught, launches, disk>>

\* app.quit() from the menu or the tray: "before-quit", then the windows are closed
Quit ==
    /\ phase = "running"
    /\ \E o1, o2 \in WriteOutcomes :
         /\ sessionFile' = BeforeQuitFile(o1, o2, wins, managedWindows)
         /\ trace' = BeforeQuitTrace(trace, o1, o2, wins, managedWindows)
    /\ isQuitting' = TRUE
    /\ phase' = IF DOMAIN wins = {} THEN "exited" ELSE "quitting"
    /\ Becomes(IF DOMAIN wins = {} THEN FeaturesOnWillQuit(Features) ELSE Features)
    /\ UNCHANGED <<renderer, currentApp, store, cliConfig, now, wins, nextNativeId, managedWindows,
                   windowIdCounter, restoreTimers, uncaught, launches, disk>>

\* the setInterval callback of initializeSessionManager
Autosave ==
    /\ phase \in {"running", "quitting"}
    /\ \E o \in WriteOutcomes :
         IF store.restoreSession = TRUE
         THEN /\ sessionFile' = saveSession(sessionFile, o, wins, managedWindows)
              /\ trace' = TraceSaved(trace, o, wins, managedWindows)
         ELSE UNCHANGED <<sessionFile, trace>>
    /\ UNCHANGED <<features, currentApp, store, cliConfig, phase, isQuitting, now, wins, nextNativeId,
                   managedWindows, windowIdCounter, restoreTimers, uncaught,
                   launches, disk>>

\* a restore whose timers are all due at once
RestoreTimerDueAtOnce == trace.restoreStart

\* how long after its due time a timer callback can start: setTimeout
\* runs the callback once the delay has passed and the main thread is free
TimerLateness == {0, MaxLateness}

\* the time the autosave timer is due: setInterval re-arms the timer for
\* one interval after the callback ran
AutosaveDue ==
    (IF trace.autosaveAt = << >> THEN trace.intervals[Len(trace.intervals)]
     ELSE trace.autosaveAt[Len(trace.autosaveAt)]) + AutosaveInterval

\* the setInterval callback of initializeSessionManager, with the clock;
\* timers run in the order they are due, and the restore timers of a
\* snapshot are due within the first interval
AutosaveTimerFires ==
    /\ phase \in {"running", "quitting"}
    /\ Len(trace.autosaveAt) < MaxAutosaves
    /\ restoreTimers = << >>
    /\ \E late \in TimerLateness :
         now' = (IF now > AutosaveDue THEN now ELSE AutosaveDue) + late
    /\ \E o \in WriteOutcomes :
         IF store.restoreSession = TRUE
         THEN /\ sessionFile' = saveSessionAt(now', sessionFile, o, wins, managedWindows)
              /\ trace' = [TraceSaved(trace, o, wins, managedWindows)
                             EXCEPT !.autosaveAt = Append(@, now')]
         ELSE /\ UNCHANGED sessionFile
              /\ trace' = [trace EXCEPT !.autosaveAt = Append(@, now')]
    /\ UNCHANGED <<features, currentApp, store, cliConfig, phase, isQuitting, wins, nextNativeId,
                   managedWindows, windowIdCounter, restoreTimers, uncaught,
                   launches, disk>>

\* the time the oldest pending restore timer is due
RestoreTimerDue ==
    trace.restoreStart + (trace.recorded - Len(restoreTimers)) * RestoreStagger

\* a setTimeout callback of restoreSession: createWindow from the recorded
\* entry; reading a property of a null entry throws
RestoreTimerFires ==
    /\ phase \in {"running", "quitting"}
    /\ restoreTimers # << >>
    /\ \E late \in TimerLateness :
         now' = (IF now > RestoreTimerDue THEN now ELSE RestoreTimerDue) + late
    /\ LET e == Head(restoreTimers) IN
       IF e.tag = "null"
       THEN /\ uncaught' = TRUE
            /\ UNCHANGED <<wins, managedWindows, nextNativeId, windowIdCounter, trace>>
       ELSE /\ createWindow(Options(e.url, e.appType, e.accountType, e.bounds,
                                    e.isMaximized, TRUE))
            /\ trace' = [trace EXCEPT !.restored = @ + 1,
                                      !.restoredIds = @ \cup {nextNativeId},
                                      !.createdAt = Append(@, now')]
            /\ UNCHANGED uncaught
    /\ restoreTimers' = Tail(restoreTimers)
    /\ UNCHANGED <<features, currentApp, store, cliConfig, phase, isQuitting, sessionFile, launches, disk>>

-----------------------------------------------------------------------------
(* Window-creating operations *)

LauncherNative(accountTypeOption, url) ==
    LET accountType == IF accountTypeOption = UNDEF THEN getAccountType
                                                    ELSE accountTypeOption
    IN  [kind |-> "launcher", partition |-> getPartition(accountType),
         accountType |-> accountType,
         acctFrom |-> ResolvedFrom(accountTypeOption), url |-> url,
         title |-> NoTitle, load |-> "caught",
         webPreferences |-> WebPreferences(FALSE, TRUE, TRUE),
         shown |-> TRUE, ready |-> FALSE, max |-> FALSE, fs |-> FALSE,
         normal |-> DefaultBounds, optMax |-> FALSE, optShow |-> TRUE,
         windowId |-> 0]

\* the URL launchApp computes
LaunchUrl(appName, accountType, action) ==
    IF action = "compose" /\ appName = "outlook"
    THEN IF accountType = "work"
         THEN <<"outlook.office.com", "mail", "deeplink", "compose">>
         ELSE <<"outlook.live.com", "mail", "deeplink", "compose">>
    ELSE IF action = "new" /\ appName = "word"
    THEN IF accountType = "work"
         THEN <<"microsoft365.com", "launch", "word", "auth=2", "action=new">>
         ELSE <<"microsoft365.com", "launch", "word", "auth=1", "action=new">>
    ELSE getAppUrl(appName, accountType)

\* launchApp(appName, {action}) as the menu, the tray and the hotkeys call it
launchApp(appName, action) ==
    /\ phase = "running"
    /\ LET accountType == getAccountType
           url == LaunchUrl(appName, accountType, action)
           openInNewWindow == store.websitesInNewWindow = "true"
       IN  \E focused \in FocusChoices :
             IF ~openInNewWindow /\ focused # 0
             THEN /\ wins' = [wins EXCEPT ![focused].url = url,
                                          ![focused].load = "caught"]
                  /\ UNCHANGED nextNativeId
             ELSE /\ nextNativeId <= MaxNativeId
                  /\ wins' = Put(wins, nextNativeId, LauncherNative(UNDEF, url))
                  /\ nextNativeId' = nextNativeId + 1
    /\ UNCHANGED <<features, currentApp, store, cliConfig, phase, isQuitting, now, managedWindows,
                   windowIdCounter, sessionFile, restoreTimers, uncaught,
                   launches, disk, trace>>

\* createNewWindow(accountType): File > New Window, tray
createNewWindow(accountType) ==
    /\ phase = "running"
    /\ nextNativeId <= MaxNativeId
    /\ LET auth == IF accountType = "work" THEN "?auth=2" ELSE "?auth=1"
       IN  wins' = Put(wins, nextNativeId, LauncherNative(accountType, CustomPageUrl(auth)))
    /\ nextNativeId' = nextNativeId + 1
    /\ UNCHANGED <<features, currentApp, store, cliConfig, phase, isQuitting, now, managedWindows,
                   windowIdCounter, sessionFile, restoreTimers, uncaught,
                   launches, disk, trace>>

\* the BrowserWindow of showPreferences()
PreferencesNative ==
    [kind |-> "preferences", partition |-> "default", accountType |-> UNDEF,
     acctFrom |-> UNDEF, url |-> <<"data:text/html">>, title |-> <<"Preferences">>,
     load |-> "bare", webPreferences |-> WebPreferences(FALSE, TRUE, FALSE),
     shown |-> TRUE, ready |-> FALSE, max |-> FALSE, fs |-> FALSE,
     normal |-> DefaultBounds, optMax |-> FALSE, optShow |-> TRUE,
     windowId |-> 0]

\* showPreferences(): focus the preferences window, or create it
showPreferences ==
    /\ phase = "running"
    /\ IF \E w \in DOMAIN wins : wins[w].kind = "preferences"
       THEN UNCHANGED <<wins, nextNativeId>>
       ELSE /\ nextNativeId <= MaxNativeId
            /\ wins' = Put(wins, nextNativeId, PreferencesNative)
            /\ nextNativeId' = nextNativeId + 1
    /\ UNCHANGED <<features, currentApp, store, cliConfig, phase, isQuitting, now, managedWindows,
                   windowIdCounter, sessionFile, restoreTimers, uncaught,
                   launches, disk, trace>>

-----------------------------------------------------------------------------
(* preload.js: the bridge exposed to the pages as window.electronAPI *)

validSendChannels ==
    {"settings:set", "navigation:back", "navigation:forward", "navigation:reload",
     "navigation:home", "window:minimize", "window:maximize", "window:close",
     "app:quit", "preferences:restart", "notification:unread-changed",
     "notification:show", "media:state-changed", "media:screen-share-changed",
     "power:call-state-changed", "drop:files"}

validReceiveChannels ==
    {"settings:changed", "app:update-available", "app:offline", "theme:changed",
     "session:restored"}

validInvokeChannels ==
    {"settings:get", "settings:getAll", "app:getVersion", "app:getArchitecture",
     "app:isWayland", "preferences:get", "preferences:set", "get-desktop-sources"}

\* what one call of the bridge does: a message handed to ipcRenderer, a
\* listener registered with ipcRenderer.on, a rejected promise returned
BridgeEffect(forwarded, registered, rejected) ==
    [forwarded |-> forwarded, registered |-> registered, rejected |-> rejected]

\* a send that accepts the channels of all three lists
sendAnyListed(channel) ==
    BridgeEffect(channel \in validSendChannels \cup validReceiveChannels
                                \cup validInvokeChannels, FALSE, FALSE)

\* electronAPI.send(channel, data)
send(channel) == BridgeEffect(channel \in validSendChannels, FALSE, FALSE)

\* electronAPI.on(channel, callback)
on(channel) == BridgeEffect(FALSE, channel \in validReceiveChannels, FALSE)

\* electronAPI.invoke(channel, data)
invoke(channel) ==
    BridgeEffect(channel \in validInvokeChannels, FALSE, channel \notin validInvokeChannels)

\* the channels the pages try: one of each list, one of no list
TriedChannels == {"settings:set", "app:quit", "settings:changed", "settings:get",
                  "get-desktop-sources", "fs:readFile"}

\* the page of window w, a window created with the preload script, calls
\* window.electronAPI[method](channel)
BridgeCall(w, method, channel) ==
    /\ phase = "running"
    /\ w \in DOMAIN wins /\ wins[w].kind \in {"main", "managed", "preferences"}
    /\ LET e == CASE method = "send"   -> send(channel)
                   [] method = "on"     -> on(channel)
                   [] method = "invoke" -> invoke(channel)
       IN  trace' = [trace EXCEPT !.lastCall =
                       [w |-> w, method |-> method, channel |-> channel,
                        forwarded |-> e.forwarded, registered |-> e.registered,
                        rejected |-> e.rejected]]
    /\ UNCHANGED <<features, currentApp, store, cliConfig, phase, isQuitting, now, wins,
                   nextNativeId, managedWindows, windowIdCounter, sessionFile,
                   restoreTimers, uncaught, launches, disk>>

-----------------------------------------------------------------------------

\* focusOrCreateWindow(appType, accountType): the "launch" hotkey action
focusOrCreateWindow(appType, accountType) ==
    /\ phase = "running"
    /\ IF getWindowsByApp(appType) # << >>
       THEN UNCHANGED <<wins, managedWindows, nextNativeId, windowIdCounter>>
       ELSE createWindow(Options(getAppUrl(appType, accountType), appType,
                                 accountType, UNDEF, FALSE, TRUE))
    /\ UNCHANGED <<features, currentApp, store, cliConfig, phase, isQuitting, now, sessionFile,
                   restoreTimers, uncaught, launches, disk, trace>>

\* the window focusOrCreateWindow(appType, accountType) returns: existing[0],
\* or the window createWindow builds
FocusedOrCreated(appType) ==
    LET existing == getWindowsByApp(appType)
    IN  IF existing # << >> THEN existing[1] ELSE nextNativeId

\* handleHotkeyAction(binding) for a "launch" binding of a pressed hotkey
handleHotkeyAction(binding) ==
    /\ phase = "running"
    /\ trace' = [trace EXCEPT !.lastFocus =
                    [appType |-> binding.app, accountType |-> binding.accountType,
                     window |-> FocusedOrCreated(binding.app),
                     created |-> getWindowsByApp(binding.app) = << >>]]
    /\ IF getWindowsByApp(binding.app) # << >>
       THEN UNCHANGED <<wins, managedWindows, nextNativeId, windowIdCounter>>
       ELSE createWindow(Options(getAppUrl(binding.app, binding.accountType), binding.app,
                                 binding.accountType, UNDEF, FALSE, TRUE))
    /\ UNCHANGED <<features, currentApp, store, cliConfig, phase, isQuitting, now, sessionFile,
                   restoreTimers, uncaught, launches, disk>>

\* handleOpenFile(filePath) once the user confirmed the dialog
handleOpenFile ==
    /\ phase = "running"
    /\ LET accountType == getAccountType
           oneDriveUrl == IF accountType = "work"
                          THEN <<"onedrive.live.com", "upload">>
                          ELSE <<"onedrive.live.com", "?id=root">>
       IN  createWindow(Options(oneDriveUrl, "onedrive", accountType, UNDEF, FALSE, TRUE))
    /\ UNCHANGED <<features, currentApp, store, cliConfig, phase, isQuitting, now, sessionFile,
                   restoreTimers, uncaught, launches, disk, trace>>


-----------------------------------------------------------------------------
(* The injected scripts and the IPC handlers of the feature modules.  A     *)
(* message sent by a page is handled in the same step.                      *)

\* what the actions of the feature modules leave alone
WindowsSame ==
    UNCHANGED <<currentApp, cliConfig, phase, isQuitting, nextNativeId,
                managedWindows, windowIdCounter, sessionFile, restoreTimers,
                uncaught, launches, disk>>

\* the streams a page obtains from getUserMedia, named by their tracks
Streams == {"video", "audio"}

\* the page of window w obtains a stream: "media:state-changed" with active: true
GetUserMedia(w, stream) ==
    /\ phase = "running"
    /\ w \in DOMAIN wins /\ w \in DOMAIN renderer
    /\ stream \notin renderer[w].activeStreams
    /\ renderer' = [renderer EXCEPT ![w].activeStreams = @ \cup {stream}]
    /\ Becomes(OnMediaStateChanged(Features, w,
                   [camera |-> stream = "video", microphone |-> stream = "audio",
                    active |-> TRUE]))
    /\ WindowsSame /\ UNCHANGED <<store, now, wins, trace>>

\* track.onended of a stream of window w: the message is sent when no stream
\* is left
StreamEnded(w, stream) ==
    /\ phase = "running"
    /\ w \in DOMAIN wins /\ w \in DOMAIN renderer
    /\ stream \in renderer[w].activeStreams
    /\ renderer' = [renderer EXCEPT ![w].activeStreams = @ \ {stream}]
    /\ Becomes(IF renderer[w].activeStreams = {stream}
               THEN OnMediaStateChanged(Features, w,
                        [camera |-> FALSE, microphone |-> FALSE, active |-> FALSE])
               ELSE Features)
    /\ WindowsSame /\ UNCHANGED <<store, now, wins, trace>>

\* the page of window w obtains a display stream
GetDisplayMedia(w) ==
    /\ phase = "running"
    /\ w \in DOMAIN wins /\ w \in DOMAIN renderer
    /\ ~renderer[w].screenShare
    /\ renderer' = [renderer EXCEPT ![w].screenShare = TRUE]
    /\ Becomes(OnScreenShareChanged(Features, w, TRUE))
    /\ WindowsSame /\ UNCHANGED <<store, now, wins, trace>>

\* track.onended of the display stream of window w
DisplayEnded(w) ==
    /\ phase = "running"
    /\ w \in DOMAIN wins /\ w \in DOMAIN renderer
    /\ renderer[w].screenShare
    /\ renderer' = [renderer EXCEPT ![w].screenShare = FALSE]
    /\ Becomes(OnScreenShareChanged(Features, w, FALSE))
    /\ WindowsSame /\ UNCHANGED <<store, now, wins, trace>>

\* checkForActiveCall() of the call script of window w finds the call state
\* changed: ipcMain.on("power:call-state-changed")
CallStateChanged(w) ==
    /\ phase = "running"
    /\ w \in DOMAIN wins /\ w \in DOMAIN renderer
    /\ renderer[w].callDetection
    /\ renderer' = [renderer EXCEPT ![w].lastCallState = ~@]
    /\ Becomes(setCallActive(Features, ~renderer[w].lastCallState))
    /\ WindowsSame /\ UNCHANGED <<store, now, wins, trace>>

\* the page of window w is unloaded (the window is about to close, or it
\* navigates): the beforeunload listeners of the scripts run
PageUnload(w) ==
    /\ phase \in {"running", "quitting"}
    /\ w \in DOMAIN wins /\ w \in DOMAIN renderer
    /\ renderer' = Remove(renderer, w)
    /\ Becomes(Unloaded(Features, w))
    /\ WindowsSame /\ UNCHANGED <<store, now, wins, trace>>

\* time passes
TimePasses(ms) ==
    /\ phase = "running"
    /\ now + ms <= maxAge + maxAge + MaxElapsed
    /\ now' = now + ms
    /\ WindowsSame /\ UNCHANGED <<features, store, wins, trace>>

\* what a call of showNotification leaves in the history
TraceNotified(t, f, supported, r) ==
    [t EXCEPT !.shownAt = IF r.notification = "shown" THEN Append(@, now) ELSE @,
              !.lastNotify = [at |-> now, enabled |-> areNotificationsEnabled(f),
                              supported |-> supported,
                              lastBefore |-> f.notifier.lastNotificationTime,
                              lastAfter |-> r.features.notifier.lastNotificationTime,
                              notification |-> r.notification]]

\* document.title of window w becomes title: the MutationObserver of the
\* notification script compares it with lastTitle
TitleChanged(w, title) ==
    /\ phase = "running"
    /\ w \in DOMAIN wins /\ w \in DOMAIN renderer
    /\ title # wins[w].title
    /\ Len(trace.shownAt) < MaxShown
    /\ wins' = [wins EXCEPT ![w].title = title]
    /\ renderer' = [renderer EXCEPT ![w].lastTitle = title]
    /\ LET newCount == parseUnreadCount(title)
           oldCount == parseUnreadCount(renderer[w].lastTitle)
       IN  IF title # renderer[w].lastTitle /\ newCount > oldCount
           THEN \E supported \in BOOLEAN :
                  LET f == setBadgeCount(Features, newCount)
                      r == OnUnreadChanged(Features, wins[w].url,
                                           [count |-> newCount, increased |-> TRUE],
                                           supported, now)
                  IN  /\ Becomes(r.features)
                      /\ trace' = [(IF r.notification = "none" THEN trace
                                    ELSE TraceNotified(trace, f, supported, r))
                                   EXCEPT !.lastTitle = [w |-> w, count |-> newCount]]
           ELSE /\ UNCHANGED <<trayIcon, mediaState, power, currentBadgeCount,
                               notifier, hotkeys>>
                /\ trace' = [trace EXCEPT !.lastTitle = [w |-> w, count |-> newCount]]
    /\ WindowsSame /\ UNCHANGED <<store, now>>

\* ipcMain.on("notification:show"): a page asks for a notification
NotificationShow(w) ==
    /\ phase = "running"
    /\ w \in DOMAIN wins
    /\ Len(trace.shownAt) < MaxShown
    /\ \E supported \in BOOLEAN :
         LET r == showNotification(Features, supported, now)
         IN  /\ Becomes(r.features)
             /\ trace' = TraceNotified(trace, Features, supported, r)
    /\ WindowsSame /\ UNCHANGED <<renderer, store, now, wins>>

\* enableNotifications() / disableNotifications()
SetNotifications(enabled) ==
    /\ phase = "running"
    /\ notifier' = [notifier EXCEPT !.notificationsEnabled = enabled]
    /\ store' = [store EXCEPT !.notifications = enabled]
    /\ WindowsSame
    /\ UNCHANGED <<trayIcon, mediaState, power, currentBadgeCount, hotkeys, renderer,
                   now, wins, trace>>

\* enableHotkeys()
enableHotkeys ==
    /\ phase = "running"
    /\ store' = [store EXCEPT !.globalHotkeys = TRUE]
    /\ \E refused \in Refusals(store') :
         Becomes(registerAllHotkeys([Features EXCEPT !.hotkeys.hotkeyEnabled = TRUE],
                                    store', refused))
    /\ trace' = [trace EXCEPT !.lastHotkeyOp = "enableHotkeys"]
    /\ WindowsSame /\ UNCHANGED <<renderer, now, wins>>

\* disableHotkeys()
disableHotkeys ==
    /\ phase = "running"
    /\ store' = [store EXCEPT !.globalHotkeys = FALSE]
    /\ Becomes(unregisterAllHotkeys([Features EXCEPT !.hotkeys.hotkeyEnabled = FALSE]))
    /\ trace' = [trace EXCEPT !.lastHotkeyOp = "disableHotkeys"]
    /\ WindowsSame /\ UNCHANGED <<renderer, now, wins>>

\* setHotkeyBinding(accelerator, binding)
setHotkeyBinding(accelerator, binding) ==
    /\ phase = "running"
    /\ store' = [store EXCEPT !.hotkeyBindings =
                    SavedBindings(Put(getHotkeyBindings(store), accelerator, binding))]
    /\ IF areHotkeysEnabled(Features, store')
       THEN \E success \in BOOLEAN :
              Becomes(registerHotkey(Features, accelerator, binding, success))
       ELSE Becomes(Features)
    /\ trace' = [trace EXCEPT !.lastHotkeyOp = "setHotkeyBinding"]
    /\ WindowsSame /\ UNCHANGED <<renderer, now, wins>>

\* removeHotkeyBinding(accelerator)
removeHotkeyBinding(accelerator) ==
    /\ phase = "running"
    /\ store' = [store EXCEPT !.hotkeyBindings =
                    SavedBindings(IF accelerator \in DOMAIN getHotkeyBindings(store)
                                  THEN Remove(getHotkeyBindings(store), accelerator)
                                  ELSE getHotkeyBindings(store))]
    /\ Becomes(unregisterHotkey(Features, accelerator))
    /\ trace' = [trace EXCEPT !.lastHotkeyOp = "removeHotkeyBinding"]
    /\ WindowsSame /\ UNCHANGED <<renderer, now, wins>>

\* resetHotkeysToDefaults()
resetHotkeysToDefaults ==
    /\ phase = "running"
    /\ store' = [store EXCEPT !.hotkeyBindings = SavedBindings(DEFAULT_HOTKEYS)]
    /\ IF areHotkeysEnabled(Features, store')
       THEN \E refused \in Refusals(store') :
              Becomes(registerAllHotkeys(unregisterAllHotkeys(Features), store', refused))
       ELSE Becomes(Features)
    /\ trace' = [trace EXCEPT !.lastHotkeyOp = "resetHotkeysToDefaults"]
    /\ WindowsSame /\ UNCHANGED <<renderer, now, wins>>

\* a registered hotkey is pressed: the callback given to globalShortcut.register
HotkeyPressed(accelerator) ==
    /\ accelerator \in DOMAIN hotkeys.globalShortcut
    /\ handleHotkeyAction(hotkeys.globalShortcut[accelerator])

\* setPreference("restoreSession", value) of the preferences window
setPreferenceRestoreSession(value) ==
    /\ phase = "running"
    /\ store' = [store EXCEPT !.restoreSession = value]
    /\ trace' = [trace EXCEPT !.lastRestoreOp = "setPreference"]
    /\ WindowsSame /\ UNCHANGED <<features, now, wins>>

\* enableSessionRestore()
enableSessionRestore ==
    /\ phase = "running"
    /\ store' = [store EXCEPT !.restoreSession = TRUE]
    /\ trace' = [trace EXCEPT !.lastRestoreOp = "enableSessionRestore"]
    /\ WindowsSame /\ UNCHANGED <<features, now, wins>>

\* disableSessionRestore(): setValue("restoreSession", false); clearSession()
disableSessionRestore ==
    /\ phase = "running"
    /\ store' = [store EXCEPT !.restoreSession = FALSE]
    /\ \E unlinkOk \in UnlinkOutcomes : sessionFile' = clearSession(sessionFile, unlinkOk)
    /\ trace' = [trace EXCEPT !.lastRestoreOp = "disableSessionRestore"]
    /\ UNCHANGED <<features, currentApp, cliConfig, phase, isQuitting, now, wins,
                   nextNativeId, managedWindows, windowIdCounter, restoreTimers,
                   uncaught, launches, disk>>

-----------------------------------------------------------------------------
(* Process start *)

\* the process is started again after it exited; the settings and the
\* session file persist, everything else is rebuilt
Relaunch ==
    /\ phase = "exited"
    /\ launches < MaxLaunches
    /\ \E elapsed \in {1000, maxAge + 1} : now' = now + elapsed
    /\ phase' = "boot"
    /\ isQuitting' = FALSE
    /\ wins' = << >>
    /\ managedWindows' = << >>
    /\ nextNativeId' = 1
    /\ windowIdCounter' = 0
    /\ restoreTimers' = << >>
    /\ uncaught' = FALSE
    /\ launches' = launches + 1
    /\ trace' = TraceAtStart(trace.origin)
    /\ currentApp' = "office"
    /\ trayIcon' = TrayIconAtStart
    /\ mediaState' = MediaStateAtStart
    /\ power' = PowerAtStart
    /\ currentBadgeCount' = 0
    /\ notifier' = NotifierAtStart
    /\ hotkeys' = HotkeysAtStart
    /\ renderer' = << >>
    /\ UNCHANGED <<store, cliConfig, sessionFile, disk>>

\* entries a session file can hold
NullEntry ==
    [tag |-> "null", id |-> 0, appType |-> UNDEF, accountType |-> UNDEF,
     bounds |-> UNDEF, isMaximized |-> FALSE, isFullScreen |-> FALSE, url |-> NoUrl]

\* {} : every key absent (an absent isMaximized behaves as false)
EmptyEntry == [NullEntry EXCEPT !.tag = "record"]

WordEntry ==
    [tag |-> "record", id |-> 1, appType |-> "word", accountType |-> "work",
     bounds |-> UserBounds, isMaximized |-> TRUE, isFullScreen |-> FALSE,
     url |-> APP_URLS("word", "work")]

\* a Word window saved before its first navigation committed:
\* webContents.getURL() was ""
WordEntryNoUrl == [WordEntry EXCEPT !.url = NoUrl]

Settings(enterprise, restore, tray, newWindow) ==
    [enterprise |-> enterprise, restoreSession |-> restore,
     minimizeToTray |-> tray, websitesInNewWindow |-> newWindow,
     startMinimized |-> FALSE, custompage |-> "home", dynamicicons |-> "true",
     notifications |-> TRUE, globalHotkeys |-> FALSE, hotkeyBindings |-> NoBindings]

Start(st, cli, file, dsk) ==
    /\ disk = dsk
    /\ store = st
    /\ cliConfig = cli
    /\ sessionFile = file
    /\ phase = "boot"
    /\ isQuitting = FALSE
    /\ now = maxAge + maxAge
    /\ wins = << >>
    /\ managedWindows = << >>
    /\ nextNativeId = 1
    /\ windowIdCounter = 0
    /\ restoreTimers = << >>
    /\ uncaught = FALSE
    /\ launches = 1
    /\ currentApp = "office"
    /\ trayIcon = TrayIconAtStart
    /\ mediaState = MediaStateAtStart
    /\ power = PowerAtStart
    /\ currentBadgeCount = 0
    /\ notifier = NotifierAtStart
    /\ hotkeys = HotkeysAtStart
    /\ renderer = << >>
    /\ trace = TraceAtStart(<< >>)

NoCli == [startupApp |-> UNDEF, accountType |-> UNDEF]

\* a session file that parsed to an object
Parsed(tsKind, ts, shape, records) ==
    [kind |-> "object", tsKind |-> tsKind, timestamp |-> ts,
     shape |-> shape, windows |-> records]

-----------------------------------------------------------------------------
(* Spec: window creation on every path, for every account setting, with    *)
(* and without a command-line account override.                            *)

\* the command line `--app word --account work`
WordAsWork == [startupApp |-> "word", accountType |-> "work"]

\* a fresh snapshot of one work window
OneWorkWindow == Parsed("number", maxAge + maxAge, "array", <<WordEntry>>)

\* every account setting with both values of websites-in-new-window; the
\* command-line override and the restored session for the personal setting
Init ==
    \/ \E enterprise \in {"?auth=1", "?auth=2", "?auth=3"}, newWindow \in {"true", "false"} :
         Start(Settings(enterprise, FALSE, FALSE, newWindow), NoCli, NoFile, "healthy")
    \/ Start(Settings("?auth=1", FALSE, FALSE, "false"), WordAsWork, NoFile, "healthy")
    \/ Start(Settings("?auth=1", TRUE, FALSE, "true"), NoCli, OneWorkWindow, "healthy")

Next ==
    \/ AppReady
    \/ \E w \in 1..MaxNativeId : MainDidFinishLoad(w)
    \/ \E w \in 1..MaxNativeId : ReadyToShow(w)
    \/ \E w \in 1..MaxNativeId : CloseWindow(w)
    \/ RestoreTimerFires
    \/ launchApp("word", UNDEF)
    \/ \E accountType \in Accounts : createNewWindow(accountType)
    \/ \E accountType \in Accounts \cup {UNDEF} : focusOrCreateWindow("word", accountType)
    \/ handleOpenFile

Spec == Init /\ [][Next]_vars

-----------------------------------------------------------------------------
(* SpecRestore: startup over every content of the session file.            *)

FileContents ==
    {NoFile, Garbage}
    \cup {Parsed(tk[1], tk[2], sh, << >>) :
            tk \in {<<"number", maxAge - 1>>, <<"missing", 0>>},
            sh \in {"notarray", "missing"}}
    \cup {Parsed(tk[1], tk[2], "array", ws) :
            tk \in {<<"number", maxAge + maxAge>>, <<"number", maxAge>>,
                    <<"number", maxAge - 1>>, <<"missing", 0>>},
            ws \in {<< >>, <<WordEntry>>, <<WordEntryNoUrl>>, <<NullEntry>>,
                    <<WordEntry, EmptyEntry>>,
                    <<WordEntry, NullEntry>>, <<WordEntry, EmptyEntry, WordEntry>>}}

InitRestore ==
    \E restore \in BOOLEAN, hidden \in BOOLEAN, file \in FileContents,
       dsk \in {"healthy", "faulty"} :
      Start([Settings("?auth=1", restore, FALSE, "true") EXCEPT !.startMinimized = hidden],
            NoCli, file, dsk)

NextRestore ==
    \/ AppReady
    \/ \E w \in 1..MaxNativeId : MainDidFinishLoad(w)
    \/ \E w \in 1..MaxNativeId : ReadyToShow(w)
    \/ \E w \in 1..MaxNativeId : CloseWindow(w)
    \/ RestoreTimerFires
    \/ Autosave
    \/ Quit

SpecRestore == InitRestore /\ [][NextRestore]_vars

-----------------------------------------------------------------------------
(* SpecSession: windows are opened, moved, maximized, saved, and restored   *)
(* by the next run of the process.                                          *)

InitSession ==
    Start(Settings("?auth=1", TRUE, FALSE, "true"), NoCli, NoFile, "healthy")

NextSession ==
    \/ AppReady
    \/ \E w \in 1..MaxNativeId : MainDidFinishLoad(w)
    \/ \E accountType \in {"work", UNDEF} : focusOrCreateWindow("word", accountType)
    \/ \E w \in 1..MaxNativeId : ReadyToShow(w)
    \/ \E w \in 1..MaxNativeId : Maximize(w)
    \/ \E w \in 1..MaxNativeId : Unmaximize(w)
    \/ \E w \in 1..MaxNativeId : EnterFullScreen(w)
    \/ \E w \in 1..MaxNativeId : LeaveFullScreen(w)
    \/ \E w \in 1..MaxNativeId, b \in {DefaultBounds, UserBounds} : Resize(w, b)
    \/ \E w \in 1..MaxNativeId : CloseWindow(w)
    \/ RestoreTimerFires
    \/ Autosave
    \/ Quit
    \/ Relaunch

SpecSession == InitSession /\ [][NextSession]_vars

-----------------------------------------------------------------------------
(* SpecClose: windows are opened and closed, with and without               *)
(* minimize-to-tray; every pending window event is eventually delivered     *)
(* and every close request that stays possible is eventually made.          *)

InitClose ==
    \E tray \in BOOLEAN, enterprise \in {"?auth=1", "?auth=2"} :
      Start(Settings(enterprise, FALSE, tray, "true"), NoCli, NoFile, "healthy")

NextClose ==
    \/ AppReady
    \/ \E w \in 1..MaxNativeId : MainDidFinishLoad(w)
    \/ \E accountType \in {"work", UNDEF} : focusOrCreateWindow("word", accountType)
    \/ handleOpenFile
    \/ \E w \in 1..MaxNativeId : ReadyToShow(w)
    \/ \E w \in 1..MaxNativeId : CloseWindow(w)
    \/ Quit

SpecClose ==
    /\ InitClose /\ [][NextClose]_vars
    /\ WF_vars(AppReady)
    /\ \A w \in 1..MaxNativeId :
          /\ WF_vars(MainDidFinishLoad(w))
          /\ WF_vars(ReadyToShow(w))
          /\ WF_vars(CloseWindow(w))

-----------------------------------------------------------------------------
(* SpecEvents: managed windows are opened from hotkey bindings, navigated,  *)
(* maximized, resized and closed, and events are delivered to windows that  *)
(* have already closed.                                                     *)

\* the "launch" bindings of the hotkeys: a default-style binding with an
\* account, and a binding to the "allapps" entry of APP_URLS
HotkeyBindings == {[action |-> "launch", app |-> "word", accountType |-> "work"],
                   [action |-> "launch", app |-> "allapps", accountType |-> UNDEF]}

InitEvents ==
    Start(Settings("?auth=1", FALSE, FALSE, "false"), NoCli, NoFile, "healthy")

NextEvents ==
    \/ AppReady
    \/ \E w \in 1..MaxNativeId : MainDidFinishLoad(w)
    \/ \E binding \in HotkeyBindings :
          focusOrCreateWindow(binding.app, binding.accountType)
    \/ \E w \in 1..MaxNativeId : ReadyToShow(w)
    \/ launchApp("outlook", UNDEF)
    \/ \E w \in DOMAIN managedWindows : DidNavigate(w)
    \/ \E w \in DOMAIN managedWindows : Maximize(w)
    \/ \E w \in DOMAIN managedWindows : EnterFullScreen(w)
    \/ \E w \in DOMAIN managedWindows : Resize(w, UserBounds)
    \/ \E w \in 1..MaxNativeId : CloseWindow(w)
    \/ \E w \in 1..MaxNativeId, ev \in NativeEvents : LateEvent(w, ev)

SpecEvents == InitEvents /\ [][NextEvents]_vars

-----------------------------------------------------------------------------
(* SpecClassify: managed windows, in different window states, navigate to   *)
(* pages and the navigation handlers classify them.                         *)

InitClassify ==
    Start(Settings("?auth=1", FALSE, FALSE, "false"), NoCli, NoFile, "healthy")

NextClassify ==
    \/ AppReady
    \/ \E w \in 1..MaxNativeId : MainDidFinishLoad(w)
    \/ focusOrCreateWindow("word", UNDEF)
    \/ \E w \in 1..MaxNativeId : ReadyToShow(w)
    \/ \E w \in DOMAIN managedWindows : Maximize(w)
    \/ \E w \in 1..MaxNativeId, page \in Pages : Navigate(w, page)

SpecClassify == InitClassify /\ [][NextClassify]_vars

-----------------------------------------------------------------------------
(* SpecLoad: windows are created on every path and their content loads      *)
(* can fail.                                                                *)

InitLoad ==
    Start(Settings("?auth=1", FALSE, FALSE, "false"), NoCli, NoFile, "healthy")

NextLoad ==
    \/ AppReady
    \/ \E w \in 1..MaxNativeId : MainDidFinishLoad(w)
    \/ focusOrCreateWindow("word", UNDEF)
    \/ createNewWindow("work")
    \/ launchApp("outlook", UNDEF)
    \/ \E w \in 1..MaxNativeId : ReadyToShow(w)
    \/ \E w \in 1..MaxNativeId : LoadFails(w)
    \/ \E w \in 1..MaxNativeId : CloseWindow(w)

SpecLoad == InitLoad /\ [][NextLoad]_vars

-----------------------------------------------------------------------------
(* SpecAutosave: windows are opened and closed while the autosave timer     *)
(* runs, with restore-on-start enabled and disabled.                        *)

InitAutosave ==
    \E restore \in BOOLEAN, file \in {NoFile, OneWorkWindow} :
      Start(Settings("?auth=1", restore, FALSE, "true"), NoCli, file, "healthy")

NextAutosave ==
    \/ AppReady
    \/ \E w \in 1..MaxNativeId : MainDidFinishLoad(w)
    \/ focusOrCreateWindow("word", UNDEF)
    \/ \E w \in 1..MaxNativeId : ReadyToShow(w)
    \/ \E w \in 1..MaxNativeId : CloseWindow(w)
    \/ RestoreTimerFires
    \/ AutosaveTimerFires
    \/ Quit

SpecAutosave == InitAutosave /\ [][NextAutosave]_vars

-----------------------------------------------------------------------------
(* SpecTray: pages load in managed windows and the tray follows them, with  *)
(* the dynamic-icons preference switched on and off.                        *)

InitTray ==
    Start(Settings("?auth=1", FALSE, FALSE, "false"), NoCli, NoFile, "healthy")

TrayPages ==
    { Page(<<"outlook.live.com", "mail">>, <<"Mail">>),
      Page(<<"onedrive.live.com", "edit.aspx", "&ithint=file%2cpptx">>, <<"deck.pptx">>) }

NextTray ==
    \/ AppReady
    \/ \E w \in 1..MaxNativeId : MainDidFinishLoad(w)
    \/ focusOrCreateWindow("word", UNDEF)
    \/ \E w \in 1..MaxNativeId : ReadyToShow(w)
    \/ \E w \in DOMAIN managedWindows, page \in TrayPages : Navigate(w, page)
    \/ \E w \in DOMAIN managedWindows : PageDidFinishLoad(w)
    \/ \E value \in BOOLEAN : SetDynamicIcons(value)

SpecTray == InitTray /\ [][NextTray]_vars

-----------------------------------------------------------------------------
(* SpecSecurity: every kind of window the application creates is opened.    *)

InitSecurity ==
    Start(Settings("?auth=1", FALSE, FALSE, "true"), NoCli, NoFile, "healthy")

NextSecurity ==
    \/ AppReady
    \/ \E w \in 1..MaxNativeId : MainDidFinishLoad(w)
    \/ focusOrCreateWindow("word", UNDEF)
    \/ createNewWindow("work")
    \/ launchApp("outlook", UNDEF)
    \/ showPreferences
    \/ \E w \in 1..MaxNativeId : ReadyToShow(w)
    \/ \E w \in 1..MaxNativeId : CloseWindow(w)

SpecSecurity == InitSecurity /\ [][NextSecurity]_vars

-----------------------------------------------------------------------------
(* SpecBridge: the pages of the windows call the preload bridge.            *)

InitBridge ==
    Start(Settings("?auth=1", FALSE, FALSE, "true"), NoCli, NoFile, "healthy")

NextBridge ==
    \/ AppReady
    \/ \E w \in 1..MaxNativeId : MainDidFinishLoad(w)
    \/ focusOrCreateWindow("word", UNDEF)
    \/ showPreferences
    \/ \E w \in 1..MaxNativeId : ReadyToShow(w)
    \/ \E w \in 1..MaxNativeId, method \in {"send", "on", "invoke"},
          channel \in TriedChannels : BridgeCall(w, method, channel)

SpecBridge == InitBridge /\ [][NextBridge]_vars

-----------------------------------------------------------------------------
(* Properties *)

\* the account a URL belongs to, read off its auth marker or its host
UrlAccount(url) ==
    IF \E i \in 1..Len(url) : url[i] \in {"auth=2", "?auth=2", "outlook.office.com",
                                          "teams.microsoft.com"}
    THEN "work"
    ELSE IF \E i \in 1..Len(url) : url[i] \in {"auth=1", "?auth=1", "outlook.live.com",
                                               "teams.live.com"}
    THEN "personal"
    ELSE "none"

PartitionAccount(partition) ==
    CASE partition = "persist:work"     -> "work"
      [] partition = "persist:personal" -> "personal"
      [] OTHER                          -> "none"

AppWindows == {w \in DOMAIN wins : wins[w].kind # "splash"}

\* C1 (as claimed): in every reachable state the URL loaded into a window
\* belongs to the account type of the window's storage partition, whichever
\* operation loaded it.
PartitionMatchesContent ==
    \A w \in AppWindows :
        UrlAccount(wins[w].url) \in {"none", PartitionAccount(wins[w].partition)}

\* C2: a window created with accountType "work" is never bound to the
\* partition of a window created with accountType "personal".
WorkAndPersonalPartitionsDiffer ==
    \A w1, w2 \in DOMAIN wins :
        wins[w1].accountType = "work" /\ wins[w2].accountType = "personal"
            => wins[w1].partition # wins[w2].partition

\* C2 witness: a work window and a personal window are open together.
WorkAndPersonalOpen ==
    \E w1, w2 \in DOMAIN wins :
        wins[w1].accountType = "work" /\ wins[w2].accountType = "personal"

\* C3 (as claimed): wherever a partition is resolved from an account type or
\* from the persisted account setting, every value other than the work
\* marker yields the personal partition.
NonWorkResolvesToPersonal ==
    \A w \in AppWindows :
        wins[w].acctFrom \notin {"work", "?auth=2"}
            => wins[w].partition = "persist:personal"

\* C4 (as claimed): the registry records are exactly the live application
\* windows.
RegistryMatchesWindows == DOMAIN managedWindows = AppWindows

Registered(w) == w \in DOMAIN managedWindows

\* C5 (as claimed, for the windows the registry holds): every registered
\* window is eventually unregistered when close requests are fair.
EveryWindowEventuallyUnregistered ==
    \A w \in 1..MaxNativeId : [](Registered(w) => <>(~Registered(w)))

\* C5 (amended): a registered window is eventually unregistered when close
\* requests are fair and either minimize-to-tray is off or the application
\* is quitting; its record is deleted once, and after its closed event no
\* registry query (getWindowMeta, getWindowCount, getWindowsByAccount,
\* getWindowsByApp, getSessionState) returns it.
ClosedWindowsUnregisteredOnce ==
    /\ [](\A w \in trace.closed :
            /\ ~Registered(w)
            /\ w \in DOMAIN trace.unreg => trace.unreg[w] = 1
            /\ \A a \in Accounts : w \notin getWindowsByAccount(a)
            /\ \A t \in AppTypes :
                 \A k \in 1..Len(getWindowsByApp(t)) : getWindowsByApp(t)[k] # w)
    /\ [](/\ getWindowCount = Cardinality(DOMAIN managedWindows \ trace.closed)
          /\ Len(getSessionState(wins, managedWindows))
               = Cardinality((DOMAIN managedWindows \cap DOMAIN wins) \ trace.closed))
    /\ \A w \in 1..MaxNativeId :
         [](Registered(w) /\ (store.minimizeToTray # TRUE \/ isQuitting)
              => <>(~Registered(w) /\ w \in DOMAIN trace.unreg /\ trace.unreg[w] = 1))

\* C5 witness: a registered window was closed and its record deleted while
\* another window is still registered.
RegisteredWindowClosed ==
    /\ \E w \in trace.closed : w \in DOMAIN trace.unreg /\ trace.unreg[w] = 1
    /\ DOMAIN managedWindows # {}

\* C6 (as claimed): on the step that begins the shutdown, with session
\* restore enabled and the write succeeding, the persisted windows are the
\* registered windows that were open before that step.
SnapshotTakenBeforeTeardown ==
    [][(~isQuitting /\ isQuitting' /\ store.restoreSession = TRUE
          /\ trace'.lastWrite = "ok")
         => /\ sessionFile'.kind = "object"
            /\ sessionFile'.windows = getSessionState(wins, managedWindows)]_vars

\* C7 (as claimed): each window a restore recreates has the appType,
\* accountType, bounds and isMaximized of the registered window its record
\* was saved from.
RoundTripPreservesWindows ==
    [][(restoreTimers # << >> /\ restoreTimers' = Tail(restoreTimers)
          /\ nextNativeId' = nextNativeId + 1
          /\ Len(trace.restoring) >= Len(restoreTimers))
         => LET i == Len(trace.restoring) - Len(restoreTimers) + 1
                m == managedWindows'[nextNativeId]
            IN  [appType |-> m.appType, accountType |-> m.accountType,
                 bounds |-> m.bounds, isMaximized |-> m.isMaximized]
                  = trace.restoring[i]]_vars

BecomesReady == phase = "boot" /\ phase' = "running"

\* C8 (as claimed): whatever the session file holds, when it is older than
\* 24 hours at restore time no window is restored, the default window is
\* created instead, and the file is removed.
StaleSnapshotAlwaysRemoved ==
    [][(BecomesReady /\ store.restoreSession = TRUE /\ OlderThanADay)
         => /\ restoreTimers' = << >>
            /\ trace'.defaults = 1
            /\ sessionFile' = NoFile]_vars

\* C8 (amended): a snapshot older than 24 hours is never restored and the
\* default window is created instead; the file is removed when restore is
\* enabled, its windows key is an array and unlinkSync does not fail, and
\* is left as it was otherwise.
StaleSnapshotDiscarded ==
    /\ [](trace.stale => trace.restored = 0 /\ trace.defaults = 1
                         /\ trace.recorded = 0)
    /\ [][(BecomesReady /\ OlderThanADay)
            => /\ restoreTimers' = << >>
               /\ DOMAIN managedWindows' = {}
               /\ sessionFile' =
                    IF store.restoreSession = TRUE /\ sessionFile.shape = "array"
                       /\ ~trace'.unlinkFailed
                    THEN NoFile ELSE sessionFile]_vars

\* C8 witness: a stale snapshot was found at startup, the file is gone and
\* the default window exists.
StaleSnapshotRemoved ==
    /\ trace.stale /\ store.restoreSession = TRUE /\ ~trace.unlinkFailed
    /\ sessionFile = NoFile
    /\ trace.defaults = 1 /\ trace.restored = 0

\* C9: after the ready handler, restoreSession was called once; without a
\* valid snapshot exactly one default window and no restored window was
\* created; with a valid snapshot no default window was created.
StartupCreatesDefaultOrRestores ==
    phase # "boot" =>
        /\ trace.attempts = 1
        /\ ~trace.valid => /\ trace.defaults = 1
                           /\ trace.restored = 0
                           /\ restoreTimers = << >>
        /\ trace.valid => trace.defaults = 0

\* C9 witness: restore is enabled, the snapshot has an empty windows list,
\* and the default window was created.
EmptySnapshotGotDefaultWindow ==
    /\ phase = "running" /\ store.restoreSession = TRUE
    /\ sessionFile.kind = "object" /\ sessionFile.shape = "array"
    /\ Len(sessionFile.windows) = 0
    /\ ~trace.valid /\ trace.defaults = 1
    /\ \E w \in DOMAIN wins : wins[w].kind = "main"

\* C10 (as claimed): no step of the restore raises an unhandled error, and
\* once the delayed creations are done either every recorded window or the
\* default window was created.
RestoreNeverRaises ==
    /\ uncaught = FALSE
    /\ (phase = "running" /\ restoreTimers = << >>)
         => \/ trace.defaults = 1
            \/ trace.recorded > 0 /\ trace.restored = trace.recorded

\* the registered windows that are alive
LiveRegistered == DOMAIN managedWindows \cap DOMAIN wins

\* C11: the registry bounds of a window are the rectangle the native window
\* last had while it was neither maximized nor fullscreen (its creation
\* bounds if it never had one), and a step changes the registry bounds of a
\* window only if the window is neither maximized nor fullscreen after it.
BoundsAreRestoredGeometry ==
    /\ [](\A w \in LiveRegistered : managedWindows[w].bounds = wins[w].normal)
    /\ [][\A w \in LiveRegistered :
            (w \in DOMAIN managedWindows' /\ w \in DOMAIN wins'
               /\ managedWindows'[w].bounds # managedWindows[w].bounds)
              => ~wins'[w].max /\ ~wins'[w].fs]_vars

\* C11 witness: a window was dragged to another rectangle and is now
\* maximized or fullscreen, and its record still holds the dragged rectangle.
MaximizedAfterDrag ==
    \E w \in LiveRegistered :
        /\ wins[w].max \/ wins[w].fs
        /\ wins[w].normal = UserBounds
        /\ managedWindows[w].bounds = UserBounds

\* window w is alive and registered before and after the step
StaysRegistered(w) ==
    /\ w \in LiveRegistered
    /\ w \in DOMAIN managedWindows' /\ w \in DOMAIN wins'

\* C12: a step in which a window is maximized, unmaximized, enters or leaves
\* full screen changes nothing in the registry but the isMaximized /
\* isFullScreen flag of that window, and no step changes the bounds of a
\* window that is maximized; so after maximize then unmaximize the bounds
\* are those recorded before the maximize.
StateEventsChangeOnlyTheirFlag ==
    [][\A w \in LiveRegistered :
         StaysRegistered(w) =>
           /\ (wins'[w].max # wins[w].max \/ wins'[w].fs # wins[w].fs)
                => managedWindows' =
                     [managedWindows EXCEPT ![w].isMaximized = wins'[w].max,
                                            ![w].isFullScreen = wins'[w].fs]
           /\ wins[w].max => managedWindows'[w].bounds = managedWindows[w].bounds]_vars

\* C12 witness: a window that was maximized when it became ready has been
\* unmaximized, and its record holds the rectangle it was created with.
UnmaximizedAfterMaximize ==
    \E w \in LiveRegistered :
        /\ wins[w].optMax /\ wins[w].ready /\ ~wins[w].max /\ ~wins[w].fs
        /\ ~managedWindows[w].isMaximized
        /\ managedWindows[w].bounds = wins[w].normal

\* C13 (as claimed): whenever the native window is maximized or fullscreen,
\* the record getSessionState writes for it carries the cached bounds of
\* the registry record and not the live rectangle, and isMaximized,
\* isFullScreen and url are those of the live window.
SnapshotCarriesRestoredBounds ==
    \A w \in LiveRegistered :
        LET r == SessionRecord(wins, managedWindows, w) IN
        /\ (wins[w].max \/ wins[w].fs) => r.bounds = managedWindows[w].bounds
        /\ r.isMaximized = wins[w].max
        /\ r.isFullScreen = wins[w].fs
        /\ r.url = wins[w].url

\* a step in which a restore timer callback runs
RestoreStep == restoreTimers # << >> /\ restoreTimers' = Tail(restoreTimers)

\* C14 (as claimed): the windows of a restore are created at strictly
\* increasing times, each at least the fixed offset after the one before.
RestoreCreationsSpacedByOffset ==
    \A k \in 2..Len(trace.createdAt) :
        trace.createdAt[k] - trace.createdAt[k - 1] >= 100

\* C14 (amended): the callback for the entry at index i runs no earlier than
\* i times 100 ms after restoreSession scheduled it; the callbacks run one at
\* a time in snapshot order, each creating at most the one window its entry
\* records, and the creation times never decrease.
RestoreIsStaggered ==
    /\ [](\A k \in 2..Len(trace.createdAt) :
            trace.createdAt[k] >= trace.createdAt[k - 1])
    /\ [][(BecomesReady /\ restoreTimers' # << >>)
            => restoreTimers' = sessionFile.windows /\ wins' = wins]_vars
    /\ [][RestoreStep =>
            LET i == trace.recorded - Len(restoreTimers)
                e == Head(restoreTimers)
            IN  /\ now' >= trace.restoreStart + i * 100
                /\ now' >= now
                /\ Cardinality(DOMAIN wins' \ DOMAIN wins) <= 1
                /\ DOMAIN wins \subseteq DOMAIN wins'
                /\ e.tag = "record" =>
                     /\ DOMAIN managedWindows' = DOMAIN managedWindows \cup {nextNativeId}
                     /\ managedWindows'[nextNativeId].accountType
                          = (IF e.accountType = UNDEF THEN "personal" ELSE e.accountType)
                     /\ managedWindows'[nextNativeId].appType
                          = (IF e.appType = UNDEF THEN "home" ELSE e.appType)]_vars

\* C14 witness: the three windows of a snapshot were created, the second
\* less than 100 ms after the first.
ThreeWindowsRestored ==
    /\ Len(trace.createdAt) = 3 /\ restoreTimers = << >>
    /\ trace.createdAt[2] - trace.createdAt[1] < 100
    /\ trace.createdAt[3] >= trace.restoreStart + 200

\* C15: while minimize-to-tray is on and the application is not quitting, a
\* close request hides the window, destroys nothing and leaves the registry
\* as it is; when the policy is off or before-quit has fired, a close
\* request destroys the window, removes its record and hides nothing.
CloseVetoedOnlyUnderTray ==
    [][\A w \in 1..MaxNativeId :
         CloseWindow(w) =>
           IF store.minimizeToTray = TRUE /\ ~isQuitting
           THEN /\ DOMAIN wins' = DOMAIN wins
                /\ ~wins'[w].shown
                /\ managedWindows' = managedWindows
                /\ trace'.closed = trace.closed
           ELSE /\ w \notin DOMAIN wins'
                /\ w \notin DOMAIN managedWindows'
                /\ w \in trace'.closed
                /\ \A v \in DOMAIN wins' : wins'[v] = wins[v]]_vars

\* C15 witness: under minimize-to-tray a registered window was hidden by a
\* close request and is still registered; nothing has been closed.
HiddenByCloseRequest ==
    /\ store.minimizeToTray = TRUE /\ ~isQuitting
    /\ trace.closed = {}
    /\ \E w \in LiveRegistered : wins[w].ready /\ wins[w].optShow /\ ~wins[w].shown

\* C16 (as claimed): no application window is visible before its
\* ready-to-show signal, and under the start-minimized setting no window
\* created at startup, default or restored, is shown.
NeverVisibleBeforeReady ==
    /\ \A w \in AppWindows : wins[w].shown => wins[w].ready
    /\ store.startMinimized = TRUE =>
         \A w \in AppWindows :
             (wins[w].kind = "main" \/ w \in trace.restoredIds) => ~wins[w].shown

\* C17: a window that was registered and closed has exactly one
\* window-closed notification, published when its record was already
\* removed; a live window has none; and the id the notification carries is
\* the id of the record stored (and announced by window-created) when the
\* window was created, which never changes in between.
WindowClosedBroadcastOnce ==
    /\ [](/\ \A w \in DOMAIN trace.notified :
                /\ Len(trace.notified[w]) = 1
                /\ trace.notified[w][1].recordGone
                /\ w \in trace.closed /\ w \notin DOMAIN managedWindows
          /\ \A w \in DOMAIN trace.unreg : w \in DOMAIN trace.notified
          /\ \A w \in LiveRegistered : w \notin DOMAIN trace.notified)
    /\ [][\A w \in 1..MaxNativeId :
            /\ (w \notin DOMAIN managedWindows /\ w \in DOMAIN managedWindows')
                 => managedWindows'[w].id = windowIdCounter'
                    /\ windowIdCounter' = windowIdCounter + 1
            /\ (w \in DOMAIN managedWindows /\ w \in DOMAIN managedWindows')
                 => managedWindows'[w].id = managedWindows[w].id
            /\ (w \in DOMAIN managedWindows /\ w \notin DOMAIN managedWindows')
                 => /\ w \in DOMAIN trace'.notified
                    /\ trace'.notified[w][1].id = managedWindows[w].id]_vars

\* C17 witness: a registered window was closed and its notification carries
\* the id of its record, which is not its native window id.
ClosedNotificationSent ==
    \E w \in DOMAIN trace.notified :
        /\ w \in DOMAIN trace.unreg
        /\ trace.notified[w][1].id # w
        /\ trace.notified[w][1].id >= 1


\* C18: an event of the native window (maximize, unmaximize, enter or leave
\* full screen, resize, move, did-navigate, did-navigate-in-page) delivered
\* for a window whose record was already removed is ignored: the registry is
\* the same before and after the handler, no record of the window exists
\* afterwards, and the handler raises no error.
LateEventsAreIgnored ==
    \A i \in 1..Len(trace.late) :
        /\ trace.late[i][4] = trace.late[i][3]
        /\ trace.late[i][1] \notin DOMAIN trace.late[i][4]
        /\ ~trace.late[i][5]

\* C19: no step changes the accountType of a window that is registered
\* before and after it, whatever the window navigates to and however it is
\* resized, maximized or put in full screen.
AccountTypeNeverChanges ==
    [][\A w \in 1..MaxNativeId :
         StaysRegistered(w)
           => managedWindows'[w].accountType = managedWindows[w].accountType]_vars

\* C19 witness: a maximized window registered under the work account whose
\* record holds, after a navigation, a URL of the personal account.
WorkWindowNavigatedToPersonalUrl ==
    \E w \in LiveRegistered :
        /\ managedWindows[w].accountType = "work"
        /\ UrlAccount(managedWindows[w].url) = "personal"
        /\ managedWindows[w].isMaximized

\* C20: every record of the registry holds one of the fixed application
\* types, and a record whose window finished a navigation holds the URL
\* navigated to and the application type detected from that URL.
AppTypeAlwaysKnown ==
    \A w \in DOMAIN managedWindows : managedWindows[w].appType \in AppTypes

\* no token of the URL contains, in lower case, a string a rule looks for
NoRuleMatches(url) ==
    \A i \in 1..Len(url) :
        Hints(ToLower(url[i])) \cap {"word", ".docx", "excel", ".xlsx", "powerpoint",
                                     ".pptx", "outlook", "onedrive", "onenote",
                                     "teams"} = {}

\* C21: the classification a navigation stores is a function of the URL
\* alone, whatever the title and the state of the window: it is one of the
\* eight application types, it is home when no rule matches, the URL
\* https://x/outlook gives outlook and https://unknown.example gives home,
\* and two records holding the same navigated URL hold the same type.
ClassifierIsTotalAndPure ==
    [][\A w \in 1..MaxNativeId :
         (StaysRegistered(w) /\ wins'[w].url # wins[w].url)
           => LET r == managedWindows'[w] IN
              /\ r.url = wins'[w].url
              /\ r.appType \in AppTypes
              /\ NoRuleMatches(r.url) => r.appType = "home"
              /\ r.url = <<"x", "outlook">> => r.appType = "outlook"
              /\ r.url = <<"unknown.example">> => r.appType = "home"
              /\ \A v \in DOMAIN managedWindows :
                    (v # w /\ managedWindows[v].url = r.url
                           /\ managedWindows[v].url = wins[v].url
                           /\ wins[v].title # NoTitle)
                      => managedWindows[v].appType = r.appType]_vars

\* C21 witness: two registered windows, one maximized with a title and one
\* not maximized with another title, both navigated to
\* https://unknown.example and both classified as home.
SameUrlClassifiedTwice ==
    \E v, w \in LiveRegistered :
        /\ v # w
        /\ managedWindows[v].url = <<"unknown.example">>
        /\ managedWindows[w].url = <<"unknown.example">>
        /\ wins[v].title = <<"Untitled">> /\ wins[w].title = <<"deck.pptx">>
        /\ managedWindows[v].isMaximized /\ ~managedWindows[w].isMaximized
        /\ managedWindows[v].appType = "home" /\ managedWindows[w].appType = "home"

\* the rule of application app matches the page: its name occurs in the URL
\* or, for the document types, its file extension occurs in the URL or in
\* the title
RuleMatches(app, url, title) ==
    LET u == toLowerCase(url)
        t == toLowerCase(title)
        ext == CASE app = "word" -> ".docx"
                 [] app = "excel" -> ".xlsx"
                 [] app = "powerpoint" -> ".pptx"
                 [] OTHER -> "none"
    IN  Includes(u, app) \/ Includes(u, ext) \/ Includes(t, ext)

RuleOrder == <<"word", "excel", "powerpoint", "outlook", "onedrive", "onenote", "teams">>

FirstMatchingRule(url, title) ==
    LET hits == {i \in 1..Len(RuleOrder) : RuleMatches(RuleOrder[i], url, title)}
    IN  IF hits = {} THEN "home"
        ELSE RuleOrder[CHOOSE i \in hits : \A j \in hits : i <= j]

\* C22: the type stored for a navigated page is the one of the first rule, in
\* the order word, excel, powerpoint, outlook, onedrive, onenote, teams, that
\* the page's URL or (for the extension hints) the page's title matches, and
\* home when none does.
ClassifiedByFirstMatchingRule ==
    \A w \in LiveRegistered :
        (managedWindows[w].url = wins[w].url /\ wins[w].title # NoTitle)
          => managedWindows[w].appType
               = FirstMatchingRule(managedWindows[w].url, wins[w].title)

\* C23: a periodic save whose write fails changes nothing: the session file
\* is afterwards what it was before, the registry is unchanged and the
\* application keeps running.
FailedSaveChangesNothing ==
    [][(/\ trace'.lastWrite \in {"eacces", "enospc"}
        /\ UNCHANGED <<wins, isQuitting, restoreTimers, uncaught>>)
         => /\ sessionFile' = sessionFile
            /\ managedWindows' = managedWindows
            /\ phase' = phase]_vars

\* C24: every failed content load is caught where the load was started, and
\* the window and its registry record are still in place afterwards.
LoadFailuresAreCaught ==
    \A f \in trace.loadFailed : f.caught /\ f.kept

\* C25: one autosave timer is started per run, at initialization; its k-th
\* run comes no earlier than k intervals of 5 minutes after that, and
\* consecutive runs are at least one interval apart; while restore-on-start
\* is disabled no step changes the session file; while it is enabled each run
\* of the timer and each quit writes a snapshot stamped with the time of
\* the save.
AutosaveOnlyWhileRestoreEnabled ==
    /\ [](/\ phase # "boot" => Len(trace.intervals) = 1
          /\ \A k \in 1..Len(trace.autosaveAt) :
                /\ trace.autosaveAt[k] >= trace.intervals[1] + k * AutosaveInterval
                /\ k > 1 => trace.autosaveAt[k] - trace.autosaveAt[k - 1]
                              >= AutosaveInterval)
    /\ [][/\ store.restoreSession # TRUE => sessionFile' = sessionFile
          /\ (store.restoreSession = TRUE
                /\ Len(trace'.autosaveAt) > Len(trace.autosaveAt))
               => sessionFile' = SessionData(now', getSessionState(wins, managedWindows))
          /\ (store.restoreSession = TRUE /\ isQuitting' /\ ~isQuitting)
               => /\ sessionFile'.kind = "object"
                  /\ sessionFile'.timestamp = now]_vars

\* C25 witness: restore-on-start is disabled, the timer has run twice, the
\* application is quitting, and the session file found at startup is still
\* there as it was.
DisabledRestoreWroteNothing ==
    /\ store.restoreSession # TRUE
    /\ Len(trace.autosaveAt) = 2
    /\ isQuitting
    /\ sessionFile = OneWorkWindow
    /\ DOMAIN managedWindows # {}

\* the ids of the windows that were registered and have closed
ClosedIds == {trace.notified[c][1].id : c \in DOMAIN trace.notified}

\* C26: the ids of the registered windows are pairwise different and
\* different from the id of every window that has closed, and a window that
\* is registered gets an id greater than every id assigned before it.
WindowIdsAreUnique ==
    /\ [](/\ \A v, w \in DOMAIN managedWindows :
                v # w => managedWindows[v].id # managedWindows[w].id
          /\ \A w \in DOMAIN managedWindows : managedWindows[w].id \notin ClosedIds
          /\ Cardinality(ClosedIds) = Cardinality(DOMAIN trace.notified))
    /\ [][\A w \in 1..MaxNativeId :
            (w \notin DOMAIN managedWindows /\ w \in DOMAIN managedWindows')
              => /\ \A v \in DOMAIN managedWindows :
                       managedWindows'[w].id > managedWindows[v].id
                 /\ \A i \in ClosedIds : managedWindows'[w].id > i]_vars

\* C26 witness: the first registered window has closed and a window
\* registered after it is open, under the next id.
IdNotReusedAfterClose ==
    /\ 1 \in ClosedIds
    /\ \E w \in LiveRegistered : managedWindows[w].id = 2

\* C27: when the page-load handler has run with dynamic icons enabled and a
\* registered window focused, the tray's current application is the type the
\* registry holds for that window (office standing for home); and whenever
\* dynamic icons are disabled the tray's current application is office.
TrayFollowsRegistry ==
    /\ store.dynamicicons # "true" => currentApp = "office"
    /\ (trace.lastLoad.dynamic /\ trace.lastLoad.recorded # "none")
         => trace.lastLoad.indicator = IF trace.lastLoad.recorded = "home"
                                       THEN "office" ELSE trace.lastLoad.recorded

\* C28: every window that exists was created with nodeIntegration off,
\* contextIsolation on and sandbox on.
EveryWindowIsSandboxed ==
    \A w \in DOMAIN wins :
        /\ ~wins[w].webPreferences.nodeIntegration
        /\ wins[w].webPreferences.contextIsolation
        /\ wins[w].webPreferences.sandbox

\* C29: a call of the bridge hands a message to the main process only when
\* its channel is in the list of its method (send list for send, invoke list
\* for invoke), registers a listener only for on with a channel of the
\* receive list, returns a rejected promise exactly for invoke with a channel
\* outside the invoke list, and does nothing else.
BridgeForwardsOnlyWhitelisted ==
    LET c == trace.lastCall IN
    /\ c.method = "send" => /\ c.forwarded <=> c.channel \in validSendChannels
                            /\ ~c.registered /\ ~c.rejected
    /\ c.method = "on" => /\ c.registered <=> c.channel \in validReceiveChannels
                          /\ ~c.forwarded /\ ~c.rejected
    /\ c.method = "invoke" => /\ c.forwarded <=> c.channel \in validInvokeChannels
                              /\ c.rejected <=> ~c.forwarded
                              /\ ~c.registered
    /\ c.channel = "fs:readFile" => ~c.forwarded /\ ~c.registered

\* C29 witness: a page called send on a channel of the invoke list and
\* nothing was sent.
SendOnInvokeChannelDropped ==
    /\ trace.lastCall.method = "send"
    /\ trace.lastCall.channel = "settings:get"
    /\ ~trace.lastCall.forwarded
    /\ wins[trace.lastCall.w].kind = "managed"

\* C30: when a save has written the session file while creations of the
\* restore are still pending, the file holds a record for every pending
\* creation, next to the records of the windows that are open.
SaveDuringRestoreKeepsPending ==
    (store.restoreSession = TRUE /\ trace.lastWrite = "ok" /\ restoreTimers # << >>)
      => /\ sessionFile.kind = "object"
         /\ Len(sessionFile.windows) >= Len(restoreTimers)
         /\ \A i \in 1..Len(restoreTimers) :
               \E j \in 1..Len(sessionFile.windows) :
                   /\ sessionFile.windows[j].url = restoreTimers[i].url
                   /\ sessionFile.windows[j].appType = restoreTimers[i].appType

-----------------------------------------------------------------------------
(* C35: focusOrCreateWindow(appType, accountType) returns a window that     *)
(* shows the requested application under the requested account type: the   *)
(* window it focused or created is registered with that appType and that   *)
(* accountType (the persisted account type when none was given).           *)
FocusReturnsRequestedAccount ==
    LET c == trace.lastFocus IN
    (c.appType # "none" /\ c.window \in DOMAIN managedWindows)
        => /\ managedWindows[c.window].appType = c.appType
           /\ managedWindows[c.window].accountType =
                  IF c.accountType = UNDEF THEN getAccountType ELSE c.accountType

-----------------------------------------------------------------------------
(* SpecMedia: the main window and a Teams window use the camera, the        *)
(* microphone and screen sharing, unload their pages and close.            *)

InitMedia ==
    Start(Settings("?auth=1", FALSE, FALSE, "false"), NoCli, NoFile, "healthy")

NextMedia ==
    \/ AppReady
    \/ \E w \in 1..MaxNativeId : MainDidFinishLoad(w)
    \/ handleHotkeyAction(LaunchBinding("teams"))
    \/ \E w \in DOMAIN managedWindows : ReadyToShow(w)
    \/ \E w \in DOMAIN managedWindows : PageDidFinishLoad(w)
    \/ \E w \in DOMAIN wins, stream \in Streams : GetUserMedia(w, stream)
    \/ \E w \in DOMAIN wins, stream \in Streams : StreamEnded(w, stream)
    \/ \E w \in DOMAIN wins : GetDisplayMedia(w)
    \/ \E w \in DOMAIN wins : DisplayEnded(w)
    \/ \E w \in DOMAIN wins : PageUnload(w)
    \/ \E w \in 1..MaxNativeId : CloseWindow(w)

SpecMedia == InitMedia /\ [][NextMedia]_vars

\* C31: when a managed window closes while other windows stay open, the
\* media entry removed is the entry of the closed window and no other: the
\* entries after the close are the entries before it without the native id
\* of the closed window.
ClosedWindowClearsOwnMedia ==
    [][\A w \in DOMAIN wins :
          (w \notin DOMAIN wins' /\ DOMAIN wins' # {} /\ wins[w].kind = "managed")
              => mediaState'.activeMediaWindows = mediaState.activeMediaWindows \ {w}]_vars

\* no live window has an active stream or an active display stream: every
\* window that reported media activity has reported it inactive or is closed
MediaQuiet ==
    \A w \in DOMAIN wins :
        w \in DOMAIN renderer
            => renderer[w].activeStreams = {} /\ ~renderer[w].screenShare

\* C32: once every window that reported active camera, microphone or screen
\* sharing has reported it inactive or has closed, the three flags are false
\* and the tray shows no media indicator.
MediaClearedWhenQuiet ==
    MediaQuiet
        => /\ ~mediaState.cameraActive
           /\ ~mediaState.microphoneActive
           /\ ~mediaState.screenShareActive
           /\ trayIcon.mediaIndicator = NoIndicator

-----------------------------------------------------------------------------
(* SpecCalls: a Teams window and an Outlook window start and end calls,     *)
(* unload their pages and close.                                           *)

InitCalls ==
    Start(Settings("?auth=1", FALSE, FALSE, "false"), NoCli, NoFile, "healthy")

NextCalls ==
    \/ AppReady
    \/ \E w \in 1..MaxNativeId : MainDidFinishLoad(w)
    \/ \E app \in {"teams", "outlook"} : handleHotkeyAction(LaunchBinding(app))
    \/ \E w \in DOMAIN managedWindows : ReadyToShow(w)
    \/ \E w \in DOMAIN managedWindows : PageDidFinishLoad(w)
    \/ \E w \in DOMAIN managedWindows : CallStateChanged(w)
    \/ \E w \in DOMAIN managedWindows : PageUnload(w)
    \/ \E w \in 1..MaxNativeId : CloseWindow(w)

SpecCalls == InitCalls /\ [][NextCalls]_vars

\* the windows whose page is in a call
CallsActive ==
    {w \in DOMAIN wins : w \in DOMAIN renderer /\ renderer[w].lastCallState}

\* C33: power-save blocking is active exactly while at least one window has
\* an active call, and at most one blocker is held.
PowerSaveFollowsCalls ==
    /\ (CallsActive # {}) <=> isPowerSaveBlocked(Features)
    /\ Cardinality(power.started) <= 1

-----------------------------------------------------------------------------
(* SpecReset: the main window and a Teams window show unread counts, use    *)
(* the camera and screen sharing and hold a call; the windows close until  *)
(* none is left.                                                           *)

InitReset ==
    Start(Settings("?auth=1", FALSE, FALSE, "false"), NoCli, NoFile, "healthy")

NextReset ==
    \/ AppReady
    \/ \E w \in 1..MaxNativeId : MainDidFinishLoad(w)
    \/ handleHotkeyAction(LaunchBinding("teams"))
    \/ \E w \in DOMAIN managedWindows : ReadyToShow(w)
    \/ \E w \in DOMAIN managedWindows : PageDidFinishLoad(w)
    \/ \E w \in DOMAIN managedWindows : CallStateChanged(w)
    \/ \E w \in DOMAIN wins : GetUserMedia(w, "video")
    \/ \E w \in DOMAIN managedWindows : GetDisplayMedia(w)
    \/ \E w \in DOMAIN managedWindows : TitleChanged(w, <<"(2)", "Chat">>)
    \/ \E w \in 1..MaxNativeId : CloseWindow(w)

SpecReset == InitReset /\ [][NextReset]_vars

\* C37: after "window-all-closed" the derived state is reset: the badge
\* count is 0, the camera, microphone and screen-share flags are false, no
\* window is recorded as media-active, no call is marked active and no
\* power-save blocker is held.
AllClosedResetsDerivedState ==
    trace.allClosed.fired
        => /\ currentBadgeCount = 0
           /\ trayIcon.badgeCount = 0
           /\ mediaState = MediaStateAtStart
           /\ ~power.isCallActive
           /\ power.currentBlockerId = NoBlocker
           /\ power.started = {}

\* the last window closed while a badge was shown, the camera was in use
\* and a call was active
AllClosedDuringCall ==
    /\ trace.allClosed.fired
    /\ trace.allClosed.before.currentBadgeCount > 0
    /\ trace.allClosed.before.mediaState.cameraActive
    /\ trace.allClosed.before.mediaState.activeMediaWindows # {}
    /\ isPowerSaveBlocked(trace.allClosed.before)

-----------------------------------------------------------------------------
(* SpecPreferences: restore-on-start is switched off and on, by the         *)
(* session manager and by the preferences window, while sessions are saved *)
(* and the application is started again.                                   *)

InitPreferences ==
    \E file \in {NoFile, OneWorkWindow} :
      Start(Settings("?auth=1", TRUE, FALSE, "true"), NoCli, file, "healthy")

NextPreferences ==
    \/ AppReady
    \/ \E w \in 1..MaxNativeId : MainDidFinishLoad(w)
    \/ \E w \in 1..MaxNativeId : ReadyToShow(w)
    \/ \E w \in 1..MaxNativeId : CloseWindow(w)
    \/ RestoreTimerFires
    \/ Quit
    \/ Relaunch
    \/ \E value \in BOOLEAN : setPreferenceRestoreSession(value)
    \/ disableSessionRestore
    \/ enableSessionRestore

SpecPreferences == InitPreferences /\ [][NextPreferences]_vars

\* C34: whenever the restore-session setting is not enabled, no session
\* file exists on disk, whichever operation disabled it.
NoSessionFileWhileDisabled ==
    store.restoreSession # TRUE => sessionFile.kind = "absent"

\* C36: at creation, the url stored in the registry record of a window is
\* the URL the window is told to load, for every combination of the url and
\* appType options.
RegistryUrlIsLoadedUrl ==
    [][\A w \in 1..MaxNativeId :
          (w \notin DOMAIN managedWindows /\ w \in DOMAIN managedWindows')
              => managedWindows'[w].url = wins'[w].url]_vars

-----------------------------------------------------------------------------
(* SpecHotkeys: global hotkeys are enabled, disabled, rebound, removed and  *)
(* reset while registrations succeed or fail; registered hotkeys are       *)
(* pressed; the application quits.                                         *)

InitHotkeys ==
    \E enabled \in BOOLEAN :
      Start([Settings("?auth=1", FALSE, FALSE, "false") EXCEPT !.globalHotkeys = enabled],
            NoCli, NoFile, "healthy")

\* the bindings given to setHotkeyBinding
WordBindings ==
    {[action |-> "launch", app |-> "word", accountType |-> accountType] :
        accountType \in Accounts}

NextHotkeys ==
    \/ AppReady
    \/ enableHotkeys
    \/ disableHotkeys
    \/ \E accelerator \in Accelerators, binding \in WordBindings :
          setHotkeyBinding(accelerator, binding)
    \/ \E accelerator \in Accelerators : removeHotkeyBinding(accelerator)
    \/ resetHotkeysToDefaults
    \/ \E accelerator \in Accelerators : HotkeyPressed(accelerator)
    \/ Quit
    \/ \E w \in 1..MaxNativeId : CloseWindow(w)

SpecHotkeys == InitHotkeys /\ [][NextHotkeys]_vars

\* C40: the accelerators in registeredHotkeys are the accelerators the
\* hotkey manager has registered with the OS, after any sequence of hotkey
\* operations, failing registrations included; after disableHotkeys and
\* after will-quit both are empty.
RegisteredHotkeysMatchOS ==
    /\ DOMAIN hotkeys.registeredHotkeys = DOMAIN hotkeys.globalShortcut
    /\ (trace.lastHotkeyOp = "disableHotkeys" \/ phase = "exited")
          => /\ DOMAIN hotkeys.registeredHotkeys = {}
             /\ DOMAIN hotkeys.globalShortcut = {}

-----------------------------------------------------------------------------
(* SpecNotify: the unread count in the title of an Outlook window goes up   *)
(* and down, pages ask for notifications, time passes, and notifications   *)
(* are switched off and on.                                                *)

InitNotify ==
    Start(Settings("?auth=1", FALSE, FALSE, "false"), NoCli, NoFile, "healthy")

\* document titles of the Outlook page
InboxTitles == {<<"Inbox">>, <<"(1)", "Inbox">>, <<"(2)", "Inbox">>}

NextNotify ==
    \/ AppReady
    \/ handleHotkeyAction(LaunchBinding("outlook"))
    \/ \E w \in DOMAIN managedWindows : PageDidFinishLoad(w)
    \/ \E w \in DOMAIN managedWindows, title \in InboxTitles : TitleChanged(w, title)
    \/ \E w \in DOMAIN managedWindows : NotificationShow(w)
    \/ \E ms \in {NOTIFICATION_COOLDOWN - 1, NOTIFICATION_COOLDOWN} : TimePasses(ms)
    \/ \E enabled \in BOOLEAN : SetNotifications(enabled)

SpecNotify == InitNotify /\ [][NextNotify]_vars

\* C38: the badge count follows the unread count in the page title: after a
\* page observed its title change, up or down, the badge count and the tray
\* badge are the unread count of the new title.
BadgeFollowsTitle ==
    trace.lastTitle.w # 0
        => /\ currentBadgeCount = trace.lastTitle.count
           /\ trayIcon.badgeCount = trace.lastTitle.count

\* C39: any two notifications that were shown are at least
\* NOTIFICATION_COOLDOWN apart; a request inside the cooldown, or while
\* notifications are disabled or unsupported, shows nothing, returns null
\* and leaves lastNotificationTime as it was.
NotificationsRateLimited ==
    /\ \A i \in 1..(Len(trace.shownAt) - 1) :
          trace.shownAt[i + 1] - trace.shownAt[i] >= NOTIFICATION_COOLDOWN
    /\ LET n == trace.lastNotify IN
       (/\ n.notification # "none"
        /\ (~n.enabled \/ ~n.supported \/ n.at - n.lastBefore < NOTIFICATION_COOLDOWN))
           => /\ n.notification = "null"
              /\ n.lastAfter = n.lastBefore

\* a notification was shown, and a later request inside its cooldown, with
\* notifications enabled and supported, returned null
RequestInsideCooldownDropped ==
    /\ Len(trace.shownAt) = 1
    /\ trace.lastNotify.enabled /\ trace.lastNotify.supported
    /\ trace.lastNotify.at - trace.shownAt[1] = NOTIFICATION_COOLDOWN - 1
    /\ trace.lastNotify.notification = "null"
=============================================================================
